---- MODULE Spec2Model ----
(***************************************************************************)
(* Model of the Grafbase Terraform provider: the GraphQL client, the       *)
(* entity operations and the resource adapters (graph, branch in both      *)
(* schema variants, subgraph), together with the import-key parsers.       *)
(*                                                                         *)
(* Strings that are parsed are sequences of bytes; opaque texts (error     *)
(* messages) are sequences of tokens, so that equality and "contains" are  *)
(* computed and not assumed.                                               *)
(***************************************************************************)
EXTENDS Integers, Sequences, FiniteSets, TLC

VARIABLES
    importID,   \* the string handed to an import-key parser
    parsed,     \* per parser, the results it returned for importID (<<>> before it ran)
    kind,       \* which resource type the managed instance is
    remote,     \* the remote system: identity key -> entity held under it
    nextId,     \* the number of the next identifier the remote assigns
    desired,    \* the configuration of the instance (NoConfig: not configured)
    record,     \* the state the host runtime stores for the instance
    provenance, \* how the record came to be: "created", "created_read", or "none"
    last,       \* the most recent hook call: its input, requests, replies, result
    unit        \* a function of the client or provider called on its own: input and result

parseVars == <<importID, parsed>>

hostVars == <<kind, remote, nextId, desired, record, provenance, last>>

vars == <<importID, parsed, kind, remote, nextId, desired, record, provenance, last, unit>>

(***************************************************************************)
(* Bounds                                                                  *)
(***************************************************************************)
\* longest string handed to the parsers on their own
MaxLen == 4
\* longest import key handed to an Import hook
MaxKeyLen == 6
\* how many identifiers the remote assigns in one behaviour
MaxId == 2

(***************************************************************************)
(* Bytes, runes and strings                                                *)
(***************************************************************************)
Slash == 47
\* U+FFFD, the rune Go's decoder yields for a byte that is not UTF-8
RuneError == 65533

RECURSIVE SeqsUpTo(_, _)
SeqsUpTo(S, n) ==
    IF n = 0 THEN {<<>>}
    ELSE LET shorter == SeqsUpTo(S, n - 1)
         IN  shorter \cup {Append(s, c) : s \in {t \in shorter : Len(t) = n - 1}, c \in S}

\* []rune(id): byte-wise UTF-8 decoding. Bytes below 0x80 are themselves;
\* the only other byte of the model (0xFF) never starts or continues a
\* UTF-8 sequence, so it decodes to U+FFFD on its own.
ToRunes(s) == [i \in 1..Len(s) |-> IF s[i] < 128 THEN s[i] ELSE RuneError]

\* string(runes): UTF-8 encoding; U+FFFD is the three bytes EF BF BD.
RECURSIVE FromRunes(_)
FromRunes(r) ==
    IF r = <<>> THEN <<>>
    ELSE (IF Head(r) < 128 THEN <<Head(r)>> ELSE <<239, 191, 189>>) \o FromRunes(Tail(r))

\* strings.Split(s, "/")
RECURSIVE SplitFrom(_, _, _)
SplitFrom(s, i, cur) ==
    IF i > Len(s) THEN <<cur>>
    ELSE IF s[i] = Slash THEN <<cur>> \o SplitFrom(s, i + 1, <<>>)
    ELSE SplitFrom(s, i + 1, Append(cur, s[i]))

Split(s) == SplitFrom(s, 1, <<>>)

ParseError == [err |-> TRUE, first |-> <<>>, second |-> <<>>]

ParseOk(a, b) == [err |-> FALSE, first |-> a, second |-> b]

\* The scan of parseImportID over the runes: the index of the single
\* slash, 0 when there is none, -1 as soon as a second one is met.
RECURSIVE ScanSlash(_, _, _)
ScanSlash(parts, i, slashIndex) ==
    IF i > Len(parts) THEN slashIndex
    ELSE IF parts[i] = Slash
         THEN IF slashIndex = 0 THEN ScanSlash(parts, i + 1, i) ELSE -1
         ELSE ScanSlash(parts, i + 1, slashIndex)

\* parseImportID (1-based: Go's slashIndex 0 is k = 1, len-1 is k = Len)
parseImportID(id) ==
    LET parts == ToRunes(id)
        k == ScanSlash(parts, 1, 0)
    IN  IF k = -1 THEN ParseError
        ELSE IF k = 0 \/ k = 1 \/ k = Len(parts) THEN ParseError
        ELSE ParseOk(FromRunes(SubSeq(parts, 1, k - 1)),
                     FromRunes(SubSeq(parts, k + 1, Len(parts))))

\* parseSubgraphImportID
parseSubgraphImportID(id) ==
    LET parts == Split(id)
    IN  IF Len(parts) # 2 \/ parts[1] = <<>> \/ parts[2] = <<>> THEN ParseError
        ELSE ParseOk(parts[1], parts[2])

\* parseBranchImportID
parseBranchImportID(id) ==
    LET parts == Split(id)
    IN  IF Len(parts) # 2 \/ parts[1] = <<>> \/ parts[2] = <<>> THEN ParseError
        ELSE ParseOk(parts[1], parts[2])

(***************************************************************************)
(* Texts, JSON values and the Go values decoded from them                  *)
(***************************************************************************)
\* A Go string that is an attribute value is a tuple: the bytes of an
\* identity value, or one opaque token (an id, a URL, an environment).
\* An error text is a sequence of tokens; the nil error is the empty text.
NoErr == <<>>

\* strings.Contains(text, token), for a token that no other token overlaps
Contains(text, token) == \E i \in 1..Len(text) : text[i] = token

RECURSIVE Flatten(_)
Flatten(texts) == IF texts = <<>> THEN <<>> ELSE Head(texts) \o Flatten(Tail(texts))

JAbsent == [t |-> "absent"]     \* no such member: an empty json.RawMessage
JNull == [t |-> "null"]
JScalar == [t |-> "scalar"]     \* a JSON value that is no object and not null

JObject(m) == [t |-> "object", m |-> m]

Member(obj, name) ==
    IF obj.t = "object" /\ name \in DOMAIN obj.m THEN obj.m[name] ELSE JAbsent

ZeroTime == [sec |-> 0, nanos |-> 0]

EmptyString == <<>>

\* the zero value of the Graph, Branch and Subgraph structs
ZeroEntity ==
    [id |-> EmptyString, slug |-> EmptyString, name |-> EmptyString,
     url |-> EmptyString, createdAt |-> ZeroTime, environment |-> EmptyString,
     operationChecksEnabled |-> FALSE, operationChecksIgnoreUsageData |-> FALSE]

\* json.Unmarshal of an object into an entity struct: members that are
\* missing keep their zero value
EntityOf(obj) ==
    [f \in DOMAIN ZeroEntity |-> IF f \in DOMAIN obj.m THEN obj.m[f] ELSE ZeroEntity[f]]

\* CreatedAt.Format("2006-01-02T15:04:05Z07:00"): the layout has no
\* fractional seconds
FormatTime(ts) == [sec |-> ts.sec]

\* fmt's %v of a map[string]interface{}: keys in sorted order
MemberOrder ==
    <<"__typename", "branch", "deletedId", "graph", "maxLength", "query", "subgraph">>

RECURSIVE MapMembersText(_, _)
MapMembersText(m, i) ==
    IF i > Len(MemberOrder) THEN <<>>
    ELSE LET name == MemberOrder[i]
         IN  (IF name \in DOMAIN m
              THEN IF name = "__typename" THEN <<"__typename:", m[name]>>
                   ELSE <<name, ":", "...">>
              ELSE <<>>) \o MapMembersText(m, i + 1)

MapText(p) ==
    <<"map[">> \o (IF p.t = "object" THEN MapMembersText(p.m, 1) ELSE <<>>) \o <<"]">>

(***************************************************************************)
(* Transport client                                                        *)
(***************************************************************************)
\* What one request met on its way, step by step. Each step that can fail
\* carries the text of its error (NoErr: the step succeeded); the status is
\* the decimal text of the status code; the body is the text that was read
\* and the document json.Unmarshal makes of it (valid = FALSE: not JSON).
NotJson == [valid |-> FALSE]

Document(errors, data) == [valid |-> TRUE, errors |-> errors, data |-> data]

Body(text, doc) == [text |-> text, doc |-> doc]

Exchange(marshalErr, requestErr, doErr, readErr, status, body) ==
    [marshalErr |-> marshalErr, requestErr |-> requestErr, doErr |-> doErr,
     readErr |-> readErr, status |-> status, body |-> body]

StatusOK == "200"

NilResponse(err) == [resp |-> JAbsent, data |-> JAbsent, err |-> err]

\* ExecuteQuery as it would be if the body were decoded ahead of the status test
ExecuteQueryDecodesFirst(x) ==
    IF x.marshalErr # NoErr
    THEN NilResponse(<<"failed to marshal request: ">> \o x.marshalErr)
    ELSE IF x.requestErr # NoErr
    THEN NilResponse(<<"failed to create request: ">> \o x.requestErr)
    ELSE IF x.doErr # NoErr
    THEN NilResponse(<<"failed to execute request: ">> \o x.doErr)
    ELSE IF x.readErr # NoErr
    THEN NilResponse(<<"failed to read response body: ">> \o x.readErr)
    ELSE IF ~x.body.doc.valid
    THEN NilResponse(<<"failed to unmarshal response: ", "invalid character">>)
    ELSE IF Len(x.body.doc.errors) > 0
    THEN [resp |-> JObject(<<>>), data |-> x.body.doc.data,
          err |-> <<"GraphQL errors: ", "[">> \o Flatten(x.body.doc.errors) \o <<"]">>]
    ELSE IF x.status # StatusOK
    THEN NilResponse(<<"API returned status ", x.status, ": ">> \o x.body.text)
    ELSE [resp |-> JObject(<<>>), data |-> x.body.doc.data, err |-> NoErr]

\* ExecuteQuery, in the order of its statements
ExecuteQueryOf(x) ==
    IF x.marshalErr # NoErr
    THEN NilResponse(<<"failed to marshal request: ">> \o x.marshalErr)
    ELSE IF x.requestErr # NoErr
    THEN NilResponse(<<"failed to create request: ">> \o x.requestErr)
    ELSE IF x.doErr # NoErr
    THEN NilResponse(<<"failed to execute request: ">> \o x.doErr)
    ELSE IF x.readErr # NoErr
    THEN NilResponse(<<"failed to read response body: ">> \o x.readErr)
    ELSE IF x.status # StatusOK
    THEN NilResponse(<<"API returned status ", x.status, ": ">> \o x.body.text)
    ELSE IF ~x.body.doc.valid
    THEN NilResponse(<<"failed to unmarshal response: ", "invalid character">>)
    ELSE IF Len(x.body.doc.errors) > 0
    THEN [resp |-> JObject(<<>>), data |-> x.body.doc.data,
          err |-> <<"GraphQL errors: ", "[">> \o Flatten(x.body.doc.errors) \o <<"]">>]
    ELSE [resp |-> JObject(<<>>), data |-> x.body.doc.data, err |-> NoErr]

\* The replies the modelled remote gives, as exchanges:
\*   [class |-> "network"]                        httpClient.Do failed
\*   [class |-> "status", code, body]             a status other than 200
\*   [class |-> "badjson"]                        200, body is not JSON
\*   [class |-> "graphql", errors, data]          200, a GraphQL response
ExchangeOf(reply) ==
    CASE reply.class = "network" ->
            Exchange(NoErr, NoErr, <<"connection refused">>, NoErr, "", Body(<<>>, NotJson))
      [] reply.class = "status" ->
            Exchange(NoErr, NoErr, NoErr, NoErr, reply.code, Body(reply.body, NotJson))
      [] reply.class = "badjson" ->
            Exchange(NoErr, NoErr, NoErr, NoErr, StatusOK, Body(<<"<html>">>, NotJson))
      [] reply.class = "graphql" ->
            Exchange(NoErr, NoErr, NoErr, NoErr, StatusOK,
                     Body(<<"{...}">>, Document(reply.errors, reply.data)))

ExecuteQuery(reply) == ExecuteQueryOf(ExchangeOf(reply))

Wrap(prefix, err) == <<prefix>> \o err

(***************************************************************************)
(* Entity operations: decoding of the reply to each request                *)
(***************************************************************************)
Failed(err) == [ok |-> FALSE, entity |-> ZeroEntity, err |-> err, panic |-> FALSE]

Returned(e) == [ok |-> TRUE, entity |-> e, err |-> NoErr, panic |-> FALSE]

Panicked == [ok |-> FALSE, entity |-> ZeroEntity, err |-> NoErr, panic |-> TRUE]

\* json.Unmarshal(resp.Data, &result) into a struct with one member:
\* fails on an empty or non-object document, leaves the member nil on null
DataFails(data) == data.t \in {"absent", "scalar"}

\* json.Unmarshal(raw, &successResp) succeeded and the nested entity of
\* member `name` has a non-empty id
SuccessShape(raw, name) ==
    /\ raw.t = "object"
    /\ Member(raw, name).t = "object"
    /\ EntityOf(Member(raw, name)).id # EmptyString

\* json.Unmarshal(raw, &errorResp) into a map[string]interface{} fails
MapFails(raw) == raw.t \in {"absent", "scalar"}

\* errorResp["__typename"] when it is a string ("" stands for a nil interface)
TypenameOf(raw) ==
    IF raw.t = "object" /\ "__typename" \in DOMAIN raw.m THEN raw.m["__typename"] ELSE ""

\* A lookup: the pointer member of the result is nil (not found), or an entity
Lookup(reply, field, wrap, unmarshal, notFound) ==
    LET r == ExecuteQuery(reply)
        raw == Member(r.data, field)
    IN  IF r.err # NoErr THEN Failed(Wrap(wrap, r.err))
        ELSE IF DataFails(r.data) \/ raw.t = "scalar"
        THEN Failed(<<unmarshal, "unexpected JSON">>)
        ELSE IF raw.t # "object" THEN Failed(<<notFound>>)
        ELSE Returned(EntityOf(raw))

GetAccountBySlug(reply) ==
    Lookup(reply, "accountBySlug", "failed to get account: ",
           "failed to unmarshal account response: ", "account not found")

GetGraphByID(reply) ==
    Lookup(reply, "node", "failed to get graph by ID: ",
           "failed to unmarshal get by ID response: ", "graph not found")

GetGraph(reply) ==
    Lookup(reply, "graphByAccountSlug", "failed to get graph: ",
           "failed to unmarshal get response: ", "graph not found")

\* GetBranch of the client that keys branches by account, graph and name
GetBranchBySlug(reply) ==
    Lookup(reply, "branch", "failed to get branch: ",
           "failed to unmarshal get response: ", "branch not found")

\* GetBranch of the client that keys branches by graph id and name
GetBranchByGraphId(reply) ==
    Lookup(reply, "branchByGraphId", "failed to get branch: ",
           "failed to unmarshal get branch response: ", "branch not found")

GetSubgraph(reply) ==
    Lookup(reply, "subgraphByBranchId", "failed to get subgraph: ",
           "failed to unmarshal get subgraph response: ", "subgraph not found")

\* A create mutation that takes "already exists" for the entity being there
MutationAdoptsExisting(reply, field, member, wrap, unmarshal, failure) ==
    LET r == ExecuteQuery(reply)
        raw == Member(r.data, field)
    IN  IF r.err # NoErr THEN Failed(Wrap(wrap, r.err))
        ELSE IF DataFails(r.data) THEN Failed(<<unmarshal, "unexpected JSON">>)
        ELSE IF SuccessShape(raw, member) THEN Returned(EntityOf(Member(raw, member)))
        ELSE IF MapFails(raw) THEN Failed(<<"failed to parse response: ", "unexpected JSON">>)
        ELSE IF TypenameOf(raw) \in {"SlugAlreadyExistsError", "SubgraphAlreadyExistsError",
                                     "BranchAlreadyExistsError"}
        THEN Returned(ZeroEntity)
        ELSE Failed(<<failure>> \o MapText(raw))

\* A create or update mutation: the success shape is tried first, anything
\* else is printed as a map
Mutation(reply, field, member, wrap, unmarshal, failure) ==
    LET r == ExecuteQuery(reply)
        raw == Member(r.data, field)
    IN  IF r.err # NoErr THEN Failed(Wrap(wrap, r.err))
        ELSE IF DataFails(r.data) THEN Failed(<<unmarshal, "unexpected JSON">>)
        ELSE IF SuccessShape(raw, member) THEN Returned(EntityOf(Member(raw, member)))
        ELSE IF MapFails(raw) THEN Failed(<<"failed to parse response: ", "unexpected JSON">>)
        ELSE Failed(<<failure>> \o MapText(raw))

CreateGraph(reply) ==
    Mutation(reply, "graphCreate", "graph", "failed to create graph: ",
             "failed to unmarshal create response: ", "graph creation failed: ")

CreateBranchByGraphId(reply) ==
    Mutation(reply, "branchCreate", "branch", "failed to create branch: ",
             "failed to unmarshal create branch response: ", "branch creation failed: ")

CreateSubgraph(reply) ==
    Mutation(reply, "subgraphCreate", "subgraph", "failed to create subgraph: ",
             "failed to unmarshal create subgraph response: ", "subgraph creation failed: ")

UpdateSubgraph(reply) ==
    Mutation(reply, "subgraphUpdate", "subgraph", "failed to update subgraph: ",
             "failed to unmarshal update subgraph response: ", "subgraph update failed: ")

\* CreateBranch of the client that keys branches by account, graph and name:
\* the three named failures get a message of their own
CreateBranchBySlug(reply) ==
    LET r == ExecuteQuery(reply)
        raw == Member(r.data, "branchCreate")
        typename == TypenameOf(raw)
    IN  IF r.err # NoErr THEN Failed(Wrap("failed to create branch: ", r.err))
        ELSE IF DataFails(r.data)
        THEN Failed(<<"failed to unmarshal create response: ", "unexpected JSON">>)
        ELSE IF SuccessShape(raw, "branch") THEN Returned(EntityOf(Member(raw, "branch")))
        ELSE IF MapFails(raw) THEN Failed(<<"failed to parse response: ", "unexpected JSON">>)
        ELSE IF typename = "BranchAlreadyExistsError" THEN Failed(<<"branch ", "already exists">>)
        ELSE IF typename = "GraphDoesNotExistError" THEN Failed(<<"graph ", "does not exist">>)
        ELSE IF typename = "GraphNotSelfHostedError" THEN Failed(<<"graph is not self-hosted">>)
        ELSE Failed(<<"branch creation failed: ">> \o MapText(raw))

\* A delete mutation keyed by id: success is a non-empty deletedId
DeleteById(reply, field, wrap, unmarshal, parse, failure) ==
    LET r == ExecuteQuery(reply)
        raw == Member(r.data, field)
    IN  IF r.err # NoErr THEN Failed(Wrap(wrap, r.err))
        ELSE IF DataFails(r.data) THEN Failed(<<unmarshal, "unexpected JSON">>)
        ELSE IF raw.t = "object" /\ "deletedId" \in DOMAIN raw.m
                /\ raw.m["deletedId"] # EmptyString
        THEN Returned(ZeroEntity)
        ELSE IF MapFails(raw) THEN Failed(<<parse, "unexpected JSON">>)
        ELSE Failed(<<failure>> \o MapText(raw))

DeleteGraph(reply) ==
    DeleteById(reply, "graphDelete", "failed to delete graph: ",
               "failed to unmarshal delete response: ",
               "failed to parse delete response: ", "graph deletion failed: ")

DeleteBranchById(reply) ==
    DeleteById(reply, "branchDelete", "failed to delete branch: ",
               "failed to unmarshal delete branch response: ",
               "failed to parse delete branch response: ", "branch deletion failed: ")

DeleteSubgraph(reply) ==
    DeleteById(reply, "subgraphDelete", "failed to delete subgraph: ",
               "failed to unmarshal delete subgraph response: ",
               "failed to parse delete subgraph response: ", "subgraph deletion failed: ")

\* DeleteBranch that takes the refusal to delete a production branch for done
DeleteBranchBySlugIgnoresProduction(reply) ==
    LET r == ExecuteQuery(reply)
        raw == Member(r.data, "branchDelete")
        typename == TypenameOf(raw)
    IN  IF r.err # NoErr THEN Failed(Wrap("failed to delete branch: ", r.err))
        ELSE IF DataFails(r.data)
        THEN Failed(<<"failed to unmarshal delete response: ", "unexpected JSON">>)
        ELSE IF MapFails(raw) THEN Failed(<<"failed to parse delete response: ", "unexpected JSON">>)
        ELSE IF raw.t # "object" \/ "__typename" \notin DOMAIN raw.m THEN Panicked
        ELSE IF typename \in {"Query", "CannotDeleteProductionBranchError"}
        THEN Returned(ZeroEntity)
        ELSE IF typename = "BranchDoesNotExistError" THEN Failed(<<"branch ", "does not exist">>)
        ELSE Failed(<<"branch deletion failed: ">> \o MapText(raw))

\* DeleteBranch of the client that keys branches by account, graph and
\* name: the unchecked type assertion on __typename panics unless the
\* member is a string
DeleteBranchBySlug(reply) ==
    LET r == ExecuteQuery(reply)
        raw == Member(r.data, "branchDelete")
        typename == TypenameOf(raw)
    IN  IF r.err # NoErr THEN Failed(Wrap("failed to delete branch: ", r.err))
        ELSE IF DataFails(r.data)
        THEN Failed(<<"failed to unmarshal delete response: ", "unexpected JSON">>)
        ELSE IF MapFails(raw) THEN Failed(<<"failed to parse delete response: ", "unexpected JSON">>)
        ELSE IF raw.t # "object" \/ "__typename" \notin DOMAIN raw.m THEN Panicked
        ELSE IF typename = "Query" THEN Returned(ZeroEntity)
        ELSE IF typename = "BranchDoesNotExistError" THEN Failed(<<"branch ", "does not exist">>)
        ELSE IF typename = "CannotDeleteProductionBranchError"
        THEN Failed(<<"cannot delete production branch">>)
        ELSE Failed(<<"branch deletion failed: ">> \o MapText(raw))

(***************************************************************************)
(* Schemas of the four resource types                                      *)
(***************************************************************************)
\* "branch" is the branch resource keyed by account_slug/graph_slug/name,
\* "branch_by_id" the one keyed by graph_id/name.
Kinds == {"graph", "branch", "branch_by_id", "subgraph"}

\* the Required attributes that identify the entity, in import-key order
IdentityAttrs(k) ==
    CASE k = "graph" -> <<"account_slug", "slug">>
      [] k = "branch" -> <<"account_slug", "graph_slug", "name">>
      [] k = "branch_by_id" -> <<"graph_id", "name">>
      [] k = "subgraph" -> <<"branch_id", "name">>

GraphRequiresReplace == {"account_slug", "slug"}

BranchRequiresReplace == {"account_slug", "graph_slug", "name"}

BranchByIdRequiresReplace == {"graph_id", "name"}

\* the subgraph schema with RequiresReplace() left off `name`
SubgraphRequiresReplaceWithoutName == {"branch_id"}

SubgraphRequiresReplace == {"branch_id", "name"}

\* the attributes whose plan modifiers include RequiresReplace()
RequiresReplace(k) ==
    CASE k = "graph" -> GraphRequiresReplace
      [] k = "branch" -> BranchRequiresReplace
      [] k = "branch_by_id" -> BranchByIdRequiresReplace
      [] k = "subgraph" -> SubgraphRequiresReplace

\* Required attributes that are not part of the identity
MutableAttrs(k) == IF k = "subgraph" THEN {"url"} ELSE {}

\* Computed attributes a configuration may also set (Optional: true)
OptionalComputedAttrs(k) ==
    IF k = "branch"
    THEN {"operation_checks_enabled", "operation_checks_ignore_usage_data"}
    ELSE {}

\* Computed attributes a configuration cannot set
ComputedAttrs(k) ==
    CASE k = "branch" -> {"id", "environment"}
      [] OTHER -> {"id", "created_at"}

\* Computed attributes with the UseStateForUnknown() plan modifier
UseStateForUnknown(k) == {"id"}

Range(f) == {f[x] : x \in DOMAIN f}

Attrs(k) ==
    Range(IdentityAttrs(k)) \cup MutableAttrs(k) \cup OptionalComputedAttrs(k)
        \cup ComputedAttrs(k)

(***************************************************************************)
(* Attribute values and state objects                                      *)
(***************************************************************************)
\* A state, plan or configuration object is a function from attribute
\* names to values; an attribute outside its domain is null.
V(x) == [v |-> x]

Unknown == [unknown |-> TRUE]

\* the null object: no prior state, a removed resource
Absent == [a \in {} |-> Unknown]

IsKnown(obj, a) == a \in DOMAIN obj /\ obj[a] # Unknown

\* types.String.ValueString(): "" for null and unknown
ValueString(obj, a) == IF IsKnown(obj, a) THEN obj[a].v ELSE EmptyString

Set(obj, a, x) == [b \in DOMAIN obj \cup {a} |-> IF b = a THEN x ELSE obj[b]]

\* the identity of an object: the values of its identity attributes
KeyOf(k, obj) == [i \in 1..Len(IdentityAttrs(k)) |-> ValueString(obj, IdentityAttrs(k)[i])]

(***************************************************************************)
(* The remote system                                                       *)
(***************************************************************************)
\* the strings "a" and "aa"
A1 == <<97>>
A2 == <<97, 97>>

\* the identities the remote can hold an entity under: one base identity
\* and one more per identity attribute, differing in that attribute
Keys(k) ==
    IF k = "branch"
    THEN {<<A1, A1, A1>>, <<A2, A1, A1>>, <<A1, A2, A1>>, <<A1, A1, A2>>}
    ELSE {<<A1, A1>>, <<A2, A1>>, <<A1, A2>>}

Urls == {<<"u1">>, <<"u2">>, <<"u2/">>}

\* the remote stores URLs in a canonical form
Canonical(u) == IF u = <<"u2/">> THEN <<"u2">> ELSE u

NoEntity == [id |-> EmptyString, url |-> EmptyString]

IdOf(n) == <<"id", n>>

\* remote-assigned attributes, fixed per identifier
RemoteCreatedAt(id) == [sec |-> id[2], nanos |-> 500 * (id[2] % 2)]

RemoteEnvironment(id) == IF id[2] = 1 THEN <<"PRODUCTION">> ELSE <<"PREVIEW">>

RemoteChecksEnabled(id) == id[2] # 2

RemoteIgnoreUsageData(id) == id[2] # 1

AccountId(slug) == <<"account">> \o slug

SlugOfAccount(id) == IF id # <<>> /\ Head(id) = "account" THEN Tail(id) ELSE <<>>

EntityMember(k) ==
    CASE k = "graph" -> "graph"
      [] k = "subgraph" -> "subgraph"
      [] OTHER -> "branch"

\* the JSON object of an entity, with the members the queries select
EntityJson(k, key, e) ==
        JObject(
          CASE k = "graph" ->
                  [id |-> e.id, slug |-> key[2], createdAt |-> RemoteCreatedAt(e.id)]
            [] k = "branch" ->
                  [id |-> e.id, name |-> key[3], environment |-> RemoteEnvironment(e.id),
                   operationChecksEnabled |-> RemoteChecksEnabled(e.id),
                   operationChecksIgnoreUsageData |-> RemoteIgnoreUsageData(e.id)]
            [] k = "branch_by_id" ->
                  [id |-> e.id, name |-> key[2], createdAt |-> RemoteCreatedAt(e.id)]
            [] k = "subgraph" ->
                  [id |-> e.id, name |-> key[2], url |-> e.url,
                   createdAt |-> RemoteCreatedAt(e.id)])

Ok(data) == [class |-> "graphql", errors |-> <<>>, data |-> data]

Field(name, value) == JObject([n \in {name} |-> value])

Tagged(tag) == JObject([n \in {"__typename"} |-> tag])

NotFoundText(k) ==
    CASE k = "graph" -> "graph not found"
      [] k = "subgraph" -> "subgraph not found"
      [] OTHER -> "branch not found"

\* replies that are failures of the transport or of the protocol; their
\* texts may quote the wording the adapters look for
FailureReplies(k) ==
    {[class |-> "network"], [class |-> "badjson"]}
    \cup {[class |-> "status", code |-> "500", body |-> b] :
            b \in {<<"internal error">>, <<"entity ", "does not exist">>}}
    \cup {[class |-> "graphql", errors |-> <<m>>, data |-> JNull] :
            m \in {<<"internal error">>, <<NotFoundText(k)>>, <<"entity ", "does not exist">>}}

\* 200-status, error-free replies of a shape no query of the client selects
OddPayloads == {JAbsent, JNull, JScalar, JObject(<<>>)}

Request(op, key, id, url) == [op |-> op, key |-> key, id |-> id, url |-> url]

Unchanged(rem, nid, replies) == {[reply |-> r, remote |-> rem, nextId |-> nid] : r \in replies}

HeldUnder(rem, id) == {key \in DOMAIN rem : rem[key].id = id /\ id # EmptyString}

IsBranch(k) == k \in {"branch", "branch_by_id"}

LookupField(k) ==
    CASE k = "graph" -> "graphByAccountSlug"
      [] k = "branch" -> "branch"
      [] k = "branch_by_id" -> "branchByGraphId"
      [] k = "subgraph" -> "subgraphByBranchId"

CreateField(k) ==
    CASE k = "graph" -> "graphCreate"
      [] k = "subgraph" -> "subgraphCreate"
      [] OTHER -> "branchCreate"

DeleteField(k) ==
    CASE k = "graph" -> "graphDelete"
      [] k = "subgraph" -> "subgraphDelete"
      [] OTHER -> "branchDelete"

AlreadyExistsTag(k) ==
    CASE k = "graph" -> "SlugAlreadyExistsError"
      [] k = "subgraph" -> "SubgraphAlreadyExistsError"
      [] OTHER -> "BranchAlreadyExistsError"

\* the named failures of a create mutation that do not depend on the
\* entities the model tracks (parents, validity)
CreateFailureTags(k) ==
    CASE k = "graph" -> {"AccountDoesNotExistError", "SlugInvalidError"}
      [] k = "branch" -> {"GraphDoesNotExistError", "GraphNotSelfHostedError"}
      [] k = "branch_by_id" -> {"GraphDoesNotExistError", "BranchNameInvalidError"}
      [] k = "subgraph" -> {"BranchDoesNotExistError", "SubgraphUrlInvalidError"}

\* the key a create request names
CreateKey(k, req) ==
    IF k = "graph" THEN <<SlugOfAccount(req.key[1]), req.key[2]>> ELSE req.key

\* every way the remote may answer a request without an errors array of
\* its own making: the reply, and the state of the remote after it
CleanReplies(rem, nid, k, req) ==
    LET failures == Unchanged(rem, nid, FailureReplies(k))
        held == HeldUnder(rem, req.id)
    IN  CASE req.op = "GetAccountBySlug" ->
                Unchanged(rem, nid,
                    {Ok(Field("accountBySlug", JObject([id |-> AccountId(req.key[1])]))),
                     Ok(Field("accountBySlug", JNull))}) \cup failures
          [] req.op \in {"GetGraph", "GetBranch", "GetSubgraph"} ->
                Unchanged(rem, nid,
                    {Ok(Field(LookupField(k),
                              IF req.key \in DOMAIN rem /\ rem[req.key] # NoEntity
                              THEN EntityJson(k, req.key, rem[req.key])
                              ELSE JNull)),
                     Ok(JNull), Ok(JAbsent), Ok(Field(LookupField(k), JScalar))})
                \cup failures
          [] req.op \in {"CreateGraph", "CreateBranch", "CreateSubgraph"} ->
                LET key == CreateKey(k, req)
                    e == [id |-> IdOf(nid), url |-> Canonical(req.url)]
                IN  (IF key \in DOMAIN rem /\ rem[key] = NoEntity /\ nid <= MaxId
                     THEN {[reply |-> Ok(Field(CreateField(k),
                                         Field(EntityMember(k), EntityJson(k, key, e)))),
                            remote |-> [rem EXCEPT ![key] = e],
                            nextId |-> nid + 1]}
                     ELSE IF key \in DOMAIN rem /\ rem[key] # NoEntity
                     THEN Unchanged(rem, nid,
                            {Ok(Field(CreateField(k), Tagged(AlreadyExistsTag(k))))})
                     ELSE {})
                    \cup Unchanged(rem, nid,
                            {Ok(Field(CreateField(k), Tagged(t))) : t \in CreateFailureTags(k)}
                            \cup {Ok(Field(CreateField(k), p)) : p \in OddPayloads}
                            \cup {Ok(Field(CreateField(k),
                                     Field(EntityMember(k), JObject([id |-> EmptyString]))))})
                    \cup failures
          [] req.op = "UpdateSubgraph" ->
                (IF held # {}
                 THEN LET key == CHOOSE x \in held : TRUE
                          e == [rem[key] EXCEPT !.url = Canonical(req.url)]
                      IN  {[reply |-> Ok(Field("subgraphUpdate",
                                         Field("subgraph", EntityJson(k, key, e)))),
                            remote |-> [rem EXCEPT ![key] = e],
                            nextId |-> nid]}
                 ELSE Unchanged(rem, nid,
                        {Ok(Field("subgraphUpdate", Tagged("SubgraphDoesNotExistError")))}))
                \cup Unchanged(rem, nid,
                        {Ok(Field("subgraphUpdate", Tagged("SubgraphUrlInvalidError")))}
                        \cup {Ok(Field("subgraphUpdate", p)) : p \in OddPayloads})
                \cup failures
          [] req.op \in {"DeleteGraph", "DeleteSubgraph"}
                \/ (req.op = "DeleteBranch" /\ k = "branch_by_id") ->
                (IF held # {}
                 THEN LET key == CHOOSE x \in held : TRUE
                      IN  IF IsBranch(k) /\ RemoteEnvironment(req.id) = <<"PRODUCTION">>
                          THEN Unchanged(rem, nid, {Ok(Field(DeleteField(k), JObject(<<>>)))})
                          ELSE {[reply |-> Ok(Field(DeleteField(k),
                                               JObject([deletedId |-> req.id]))),
                                 remote |-> [rem EXCEPT ![key] = NoEntity],
                                 nextId |-> nid]}
                 ELSE Unchanged(rem, nid,
                        {Ok(Field(DeleteField(k), JObject([query |-> "Query"])))}))
                \cup Unchanged(rem, nid, {Ok(Field(DeleteField(k), p)) : p \in OddPayloads})
                \cup failures
          [] req.op = "DeleteBranch" /\ k = "branch" ->
                (IF req.key \in DOMAIN rem /\ rem[req.key] # NoEntity
                 THEN IF RemoteEnvironment(rem[req.key].id) = <<"PRODUCTION">>
                      THEN Unchanged(rem, nid,
                             {Ok(Field("branchDelete",
                                       Tagged("CannotDeleteProductionBranchError")))})
                      ELSE {[reply |-> Ok(Field("branchDelete", Tagged("Query"))),
                             remote |-> [rem EXCEPT ![req.key] = NoEntity],
                             nextId |-> nid]}
                 ELSE Unchanged(rem, nid,
                        {Ok(Field("branchDelete", Tagged("BranchDoesNotExistError")))}))
                \cup Unchanged(rem, nid, {Ok(Field("branchDelete", p)) : p \in OddPayloads})
                \cup failures

\* the data of the reply holds what a request asked for: an entity, a
\* deleted id, or the success variant of the slug-keyed delete
HasPayload(reply) ==
    /\ reply.class = "graphql"
    /\ reply.data.t = "object"
    /\ \E f \in DOMAIN reply.data.m :
          /\ reply.data.m[f].t = "object"
          /\ \/ DOMAIN reply.data.m[f].m
                    \cap {"id", "graph", "branch", "subgraph", "deletedId"} # {}
             \/ TypenameOf(reply.data.m[f]) = "Query"

\* the reply to a lookup holds an entity
HasLookupEntity(reply, k) ==
    /\ reply.class = "graphql"
    /\ reply.data.t = "object"
    /\ LookupField(k) \in DOMAIN reply.data.m
    /\ reply.data.m[LookupField(k)].t = "object"

\* the entity as a remote renders it that spells slugs and names its own
\* way (here: in upper case)
Respelt(e) ==
    JObject([n \in DOMAIN e.m |-> IF n \in {"slug", "name"} THEN <<65>> ELSE e.m[n]])

\* every way the remote may answer a request: as above, or with the same
\* well-formed data and an errors array next to it, or, to a lookup, with
\* the entity under another spelling of its slug or name
RemoteReplies(rem, nid, k, req) ==
    LET clean == CleanReplies(rem, nid, k, req)
    IN  clean
        \cup {[x EXCEPT !.reply.errors = <<<<"partial failure">>>>] :
                x \in {y \in clean : HasPayload(y.reply)}}
        \cup {[x EXCEPT !.reply.data =
                    Field(LookupField(k), Respelt(x.reply.data.m[LookupField(k)]))] :
                x \in {y \in clean : /\ req.op \in {"GetGraph", "GetBranch", "GetSubgraph"}
                                     /\ HasLookupEntity(y.reply, k)}}

(***************************************************************************)
(* Resource adapters: the hooks                                            *)
(***************************************************************************)
\* What one hook call gave: the state object it left in its response, the
\* diagnostics it raised, the requests it made with their replies, and the
\* remote system after them.
Outcome(state, removed, diags, calls, replies, x) ==
    [state |-> state, removed |-> removed, diags |-> diags, calls |-> calls,
     replies |-> replies, panic |-> FALSE, remote |-> x.remote, nextId |-> x.nextId]

Crash(state, calls, replies, x) ==
    [state |-> state, removed |-> FALSE, diags |-> <<>>, calls |-> calls,
     replies |-> replies, panic |-> TRUE, remote |-> x.remote, nextId |-> x.nextId]

Diag(summary, prefix, err) == [summary |-> summary, detail |-> <<prefix>> \o err]

Here(rem, nid) == [remote |-> rem, nextId |-> nid]

\* GraphResource.Create
GraphResourceCreate(plan, rem, nid) ==
    LET req1 == Request("GetAccountBySlug", <<ValueString(plan, "account_slug")>>,
                        EmptyString, EmptyString)
        Second(x1, account) ==
            LET req2 == Request("CreateGraph", <<account.id, ValueString(plan, "slug")>>,
                                EmptyString, EmptyString)
            IN  {LET graph == CreateGraph(x2.reply)
                 IN  IF ~graph.ok
                     THEN Outcome(Absent, FALSE,
                                  <<Diag("Client Error", "Unable to create graph: ", graph.err)>>,
                                  <<req1, req2>>, <<x1.reply, x2.reply>>, x2)
                     ELSE Outcome(Set(Set(plan, "id", V(graph.entity.id)),
                                      "created_at", V(FormatTime(graph.entity.createdAt))),
                                  FALSE, <<>>, <<req1, req2>>, <<x1.reply, x2.reply>>, x2)
                 : x2 \in RemoteReplies(x1.remote, x1.nextId, "graph", req2)}
    IN  UNION {LET account == GetAccountBySlug(x1.reply)
               IN  IF ~account.ok
                   THEN {Outcome(Absent, FALSE,
                                 <<Diag("Client Error", "Unable to get account: ", account.err)>>,
                                 <<req1>>, <<x1.reply>>, x1)}
                   ELSE Second(x1, account.entity)
               : x1 \in RemoteReplies(rem, nid, "graph", req1)}

\* GraphResource.Read telling not-found by a substring of the error text
GraphResourceReadMatchesSubstring(prior, rem, nid) ==
    LET req == Request("GetGraph",
                       <<ValueString(prior, "account_slug"), ValueString(prior, "slug")>>,
                       EmptyString, EmptyString)
    IN  {LET graph == GetGraph(x.reply)
         IN  IF ~graph.ok
             THEN IF Contains(graph.err, "graph not found")
                  THEN Outcome(Absent, TRUE, <<>>, <<req>>, <<x.reply>>, x)
                  ELSE Outcome(prior, FALSE,
                               <<Diag("Client Error", "Unable to read graph: ", graph.err)>>,
                               <<req>>, <<x.reply>>, x)
             ELSE Outcome(Set(Set(prior, "id", V(graph.entity.id)),
                              "created_at", V(FormatTime(graph.entity.createdAt))),
                          FALSE, <<>>, <<req>>, <<x.reply>>, x)
         : x \in RemoteReplies(rem, nid, "graph", req)}

\* GraphResource.Read reporting a graph that is gone instead of pruning it
GraphResourceReadKeepsMissing(prior, rem, nid) ==
    LET req == Request("GetGraph",
                       <<ValueString(prior, "account_slug"), ValueString(prior, "slug")>>,
                       EmptyString, EmptyString)
    IN  {LET graph == GetGraph(x.reply)
         IN  IF ~graph.ok
             THEN Outcome(prior, FALSE,
                          <<Diag("Client Error", "Unable to read graph: ", graph.err)>>,
                          <<req>>, <<x.reply>>, x)
             ELSE Outcome(Set(Set(prior, "id", V(graph.entity.id)),
                              "created_at", V(FormatTime(graph.entity.createdAt))),
                          FALSE, <<>>, <<req>>, <<x.reply>>, x)
         : x \in RemoteReplies(rem, nid, "graph", req)}

\* GraphResource.Read
GraphResourceRead(prior, rem, nid) ==
    LET req == Request("GetGraph",
                       <<ValueString(prior, "account_slug"), ValueString(prior, "slug")>>,
                       EmptyString, EmptyString)
    IN  {LET graph == GetGraph(x.reply)
         IN  IF ~graph.ok
             THEN IF graph.err = <<"graph not found">>
                  THEN Outcome(Absent, TRUE, <<>>, <<req>>, <<x.reply>>, x)
                  ELSE Outcome(prior, FALSE,
                               <<Diag("Client Error", "Unable to read graph: ", graph.err)>>,
                               <<req>>, <<x.reply>>, x)
             ELSE Outcome(Set(Set(prior, "id", V(graph.entity.id)),
                              "created_at", V(FormatTime(graph.entity.createdAt))),
                          FALSE, <<>>, <<req>>, <<x.reply>>, x)
         : x \in RemoteReplies(rem, nid, "graph", req)}

\* GraphResource.Update as a silent no-op that stores the plan
GraphResourceUpdateSilent(plan, prior, rem, nid) ==
    {Outcome(plan, FALSE, <<>>, <<>>, <<>>, Here(rem, nid))}

\* GraphResource.Update
GraphResourceUpdate(plan, prior, rem, nid) ==
    {Outcome(prior, FALSE,
             <<[summary |-> "Update Not Supported",
                detail |-> <<"Graph updates are not supported.">>]>>,
             <<>>, <<>>, Here(rem, nid))}

\* GraphResource.Delete
GraphResourceDelete(prior, rem, nid) ==
    LET req == Request("DeleteGraph", <<>>, ValueString(prior, "id"), EmptyString)
    IN  {LET done == DeleteGraph(x.reply)
         IN  IF ~done.ok
             THEN Outcome(prior, FALSE,
                          <<Diag("Client Error", "Unable to delete graph: ", done.err)>>,
                          <<req>>, <<x.reply>>, x)
             ELSE Outcome(prior, FALSE, <<>>, <<req>>, <<x.reply>>, x)
         : x \in RemoteReplies(rem, nid, "graph", req)}

\* GraphResource.ImportState
GraphResourceImportState(id, rem, nid) ==
    LET p == parseImportID(id)
        keyed == Set(Set(Absent, "account_slug", V(p.first)), "slug", V(p.second))
        req == Request("GetGraph", <<p.first, p.second>>, EmptyString, EmptyString)
    IN  IF p.err
        THEN {Outcome(Absent, FALSE,
                      <<[summary |-> "Import Error",
                         detail |-> <<"Invalid import ID format.">>]>>,
                      <<>>, <<>>, Here(rem, nid))}
        ELSE {LET graph == GetGraph(x.reply)
              IN  IF ~graph.ok
                  THEN Outcome(keyed, FALSE,
                               <<Diag("Import Error", "Unable to read graph during import: ",
                                      graph.err)>>,
                               <<req>>, <<x.reply>>, x)
                  ELSE Outcome(Set(Set(keyed, "id", V(graph.entity.id)),
                                   "created_at", V(FormatTime(graph.entity.createdAt))),
                               FALSE, <<>>, <<req>>, <<x.reply>>, x)
              : x \in RemoteReplies(rem, nid, "graph", req)}

\* the copy with the environment left out
WithBranchWithoutEnvironment(obj, branch) ==
    Set(Set(Set(obj, "id", V(branch.id)),
            "operation_checks_enabled", V(branch.operationChecksEnabled)),
        "operation_checks_ignore_usage_data", V(branch.operationChecksIgnoreUsageData))

\* the attributes of a branch that the slug-keyed adapter copies from a reply
WithBranch(obj, branch) ==
    Set(Set(Set(Set(obj, "id", V(branch.id)),
                "environment", V(branch.environment)),
            "operation_checks_enabled", V(branch.operationChecksEnabled)),
        "operation_checks_ignore_usage_data", V(branch.operationChecksIgnoreUsageData))

\* BranchResource.Create (branch keyed by account_slug/graph_slug/name)
BranchResourceCreate(plan, rem, nid) ==
    LET req == Request("CreateBranch", KeyOf("branch", plan), EmptyString, EmptyString)
    IN  {LET branch == CreateBranchBySlug(x.reply)
         IN  IF ~branch.ok
             THEN Outcome(Absent, FALSE,
                          <<Diag("Client Error", "Unable to create branch: ", branch.err)>>,
                          <<req>>, <<x.reply>>, x)
             ELSE Outcome(WithBranch(plan, branch.entity), FALSE, <<>>,
                          <<req>>, <<x.reply>>, x)
         : x \in RemoteReplies(rem, nid, "branch", req)}

\* BranchResource.Read (branch keyed by account_slug/graph_slug/name)
BranchResourceRead(prior, rem, nid) ==
    LET req == Request("GetBranch", KeyOf("branch", prior), EmptyString, EmptyString)
    IN  {LET branch == GetBranchBySlug(x.reply)
         IN  IF ~branch.ok
             THEN IF branch.err = <<"branch not found">>
                  THEN Outcome(Absent, TRUE, <<>>, <<req>>, <<x.reply>>, x)
                  ELSE Outcome(prior, FALSE,
                               <<Diag("Client Error", "Unable to read branch: ", branch.err)>>,
                               <<req>>, <<x.reply>>, x)
             ELSE Outcome(WithBranch(prior, branch.entity), FALSE, <<>>,
                          <<req>>, <<x.reply>>, x)
         : x \in RemoteReplies(rem, nid, "branch", req)}

\* BranchResource.Update (branch keyed by account_slug/graph_slug/name)
BranchResourceUpdate(plan, prior, rem, nid) ==
    {Outcome(prior, FALSE,
             <<[summary |-> "Update Not Supported",
                detail |-> <<"Branch updates are not supported.">>]>>,
             <<>>, <<>>, Here(rem, nid))}

\* BranchResource.Delete (branch keyed by account_slug/graph_slug/name)
BranchResourceDelete(prior, rem, nid) ==
    LET req == Request("DeleteBranch", KeyOf("branch", prior), EmptyString, EmptyString)
    IN  {LET done == DeleteBranchBySlug(x.reply)
         IN  IF done.panic THEN Crash(prior, <<req>>, <<x.reply>>, x)
             ELSE IF ~done.ok /\ ~Contains(done.err, "does not exist")
             THEN Outcome(prior, FALSE,
                          <<Diag("Client Error", "Unable to delete branch: ", done.err)>>,
                          <<req>>, <<x.reply>>, x)
             ELSE Outcome(prior, FALSE, <<>>, <<req>>, <<x.reply>>, x)
         : x \in RemoteReplies(rem, nid, "branch", req)}

\* BranchResource.ImportState (branch keyed by account_slug/graph_slug/name)
BranchResourceImportState(id, rem, nid) ==
    LET parts == Split(id)
        keyed == Set(Set(Set(Absent, "account_slug", V(parts[1])),
                         "graph_slug", V(parts[2])), "name", V(parts[3]))
        req == Request("GetBranch", <<parts[1], parts[2], parts[3]>>,
                       EmptyString, EmptyString)
    IN  IF Len(parts) # 3
        THEN {Outcome(Absent, FALSE,
                      <<[summary |-> "Import Error",
                         detail |-> <<"Invalid import ID format.">>]>>,
                      <<>>, <<>>, Here(rem, nid))}
        ELSE {LET branch == GetBranchBySlug(x.reply)
              IN  IF ~branch.ok
                  THEN Outcome(keyed, FALSE,
                               <<Diag("Import Error", "Unable to read branch during import: ",
                                      branch.err)>>,
                               <<req>>, <<x.reply>>, x)
                  ELSE Outcome(WithBranch(keyed, branch.entity), FALSE, <<>>,
                               <<req>>, <<x.reply>>, x)
              : x \in RemoteReplies(rem, nid, "branch", req)}

\* BranchResource.Create (branch keyed by graph_id/name)
BranchByIdResourceCreate(plan, rem, nid) ==
    LET req == Request("CreateBranch", KeyOf("branch_by_id", plan), EmptyString, EmptyString)
    IN  {LET branch == CreateBranchByGraphId(x.reply)
         IN  IF ~branch.ok
             THEN Outcome(Absent, FALSE,
                          <<Diag("Client Error", "Unable to create branch: ", branch.err)>>,
                          <<req>>, <<x.reply>>, x)
             ELSE Outcome(Set(Set(plan, "id", V(branch.entity.id)),
                              "created_at", V(FormatTime(branch.entity.createdAt))),
                          FALSE, <<>>, <<req>>, <<x.reply>>, x)
         : x \in RemoteReplies(rem, nid, "branch_by_id", req)}

\* BranchResource.Read (branch keyed by graph_id/name) leaving the stored id alone
BranchByIdResourceReadKeepsId(prior, rem, nid) ==
    LET req == Request("GetBranch", KeyOf("branch_by_id", prior), EmptyString, EmptyString)
    IN  {LET branch == GetBranchByGraphId(x.reply)
         IN  IF ~branch.ok
             THEN IF branch.err = <<"branch not found">>
                  THEN Outcome(Absent, TRUE, <<>>, <<req>>, <<x.reply>>, x)
                  ELSE Outcome(prior, FALSE,
                               <<Diag("Client Error", "Unable to read branch: ", branch.err)>>,
                               <<req>>, <<x.reply>>, x)
             ELSE Outcome(Set(prior, "created_at", V(FormatTime(branch.entity.createdAt))),
                          FALSE, <<>>, <<req>>, <<x.reply>>, x)
         : x \in RemoteReplies(rem, nid, "branch_by_id", req)}

\* BranchResource.Read (branch keyed by graph_id/name)
BranchByIdResourceRead(prior, rem, nid) ==
    LET req == Request("GetBranch", KeyOf("branch_by_id", prior), EmptyString, EmptyString)
    IN  {LET branch == GetBranchByGraphId(x.reply)
         IN  IF ~branch.ok
             THEN IF branch.err = <<"branch not found">>
                  THEN Outcome(Absent, TRUE, <<>>, <<req>>, <<x.reply>>, x)
                  ELSE Outcome(prior, FALSE,
                               <<Diag("Client Error", "Unable to read branch: ", branch.err)>>,
                               <<req>>, <<x.reply>>, x)
             ELSE Outcome(Set(Set(prior, "id", V(branch.entity.id)),
                              "created_at", V(FormatTime(branch.entity.createdAt))),
                          FALSE, <<>>, <<req>>, <<x.reply>>, x)
         : x \in RemoteReplies(rem, nid, "branch_by_id", req)}

\* BranchResource.Update (branch keyed by graph_id/name)
BranchByIdResourceUpdate(plan, prior, rem, nid) ==
    {Outcome(prior, FALSE,
             <<[summary |-> "Update Not Supported",
                detail |-> <<"Branch updates are not supported.">>]>>,
             <<>>, <<>>, Here(rem, nid))}

\* BranchResource.Delete (branch keyed by graph_id/name)
BranchByIdResourceDelete(prior, rem, nid) ==
    LET req == Request("DeleteBranch", <<>>, ValueString(prior, "id"), EmptyString)
    IN  {LET done == DeleteBranchById(x.reply)
         IN  IF ~done.ok
             THEN Outcome(prior, FALSE,
                          <<Diag("Client Error", "Unable to delete branch: ", done.err)>>,
                          <<req>>, <<x.reply>>, x)
             ELSE Outcome(prior, FALSE, <<>>, <<req>>, <<x.reply>>, x)
         : x \in RemoteReplies(rem, nid, "branch_by_id", req)}

\* BranchResource.ImportState (branch keyed by graph_id/name)
BranchByIdResourceImportState(id, rem, nid) ==
    LET p == parseBranchImportID(id)
        keyed == Set(Set(Absent, "graph_id", V(p.first)), "name", V(p.second))
        req == Request("GetBranch", <<p.first, p.second>>, EmptyString, EmptyString)
    IN  IF p.err
        THEN {Outcome(Absent, FALSE,
                      <<[summary |-> "Import Error",
                         detail |-> <<"Invalid import ID format.">>]>>,
                      <<>>, <<>>, Here(rem, nid))}
        ELSE {LET branch == GetBranchByGraphId(x.reply)
              IN  IF ~branch.ok
                  THEN Outcome(keyed, FALSE,
                               <<Diag("Import Error", "Unable to read branch during import: ",
                                      branch.err)>>,
                               <<req>>, <<x.reply>>, x)
                  ELSE Outcome(Set(Set(keyed, "id", V(branch.entity.id)),
                                   "created_at", V(FormatTime(branch.entity.createdAt))),
                               FALSE, <<>>, <<req>>, <<x.reply>>, x)
              : x \in RemoteReplies(rem, nid, "branch_by_id", req)}

\* SubgraphResource.Create
SubgraphResourceCreate(plan, rem, nid) ==
    LET req == Request("CreateSubgraph", KeyOf("subgraph", plan), EmptyString,
                       ValueString(plan, "url"))
    IN  {LET subgraph == CreateSubgraph(x.reply)
         IN  IF ~subgraph.ok
             THEN Outcome(Absent, FALSE,
                          <<Diag("Client Error", "Unable to create subgraph: ", subgraph.err)>>,
                          <<req>>, <<x.reply>>, x)
             ELSE Outcome(Set(Set(plan, "id", V(subgraph.entity.id)),
                              "created_at", V(FormatTime(subgraph.entity.createdAt))),
                          FALSE, <<>>, <<req>>, <<x.reply>>, x)
         : x \in RemoteReplies(rem, nid, "subgraph", req)}

\* SubgraphResource.Read copying the name of the returned entity as well
SubgraphResourceReadCopiesName(prior, rem, nid) ==
    LET req == Request("GetSubgraph", KeyOf("subgraph", prior), EmptyString, EmptyString)
    IN  {LET subgraph == GetSubgraph(x.reply)
         IN  IF ~subgraph.ok
             THEN IF subgraph.err = <<"subgraph not found">>
                  THEN Outcome(Absent, TRUE, <<>>, <<req>>, <<x.reply>>, x)
                  ELSE Outcome(prior, FALSE,
                               <<Diag("Client Error", "Unable to read subgraph: ", subgraph.err)>>,
                               <<req>>, <<x.reply>>, x)
             ELSE Outcome(Set(Set(Set(Set(prior, "id", V(subgraph.entity.id)),
                                      "name", V(subgraph.entity.name)),
                                  "url", V(subgraph.entity.url)),
                              "created_at", V(FormatTime(subgraph.entity.createdAt))),
                          FALSE, <<>>, <<req>>, <<x.reply>>, x)
         : x \in RemoteReplies(rem, nid, "subgraph", req)}

\* SubgraphResource.Read
SubgraphResourceRead(prior, rem, nid) ==
    LET req == Request("GetSubgraph", KeyOf("subgraph", prior), EmptyString, EmptyString)
    IN  {LET subgraph == GetSubgraph(x.reply)
         IN  IF ~subgraph.ok
             THEN IF subgraph.err = <<"subgraph not found">>
                  THEN Outcome(Absent, TRUE, <<>>, <<req>>, <<x.reply>>, x)
                  ELSE Outcome(prior, FALSE,
                               <<Diag("Client Error", "Unable to read subgraph: ", subgraph.err)>>,
                               <<req>>, <<x.reply>>, x)
             ELSE Outcome(Set(Set(Set(prior, "id", V(subgraph.entity.id)),
                                  "url", V(subgraph.entity.url)),
                              "created_at", V(FormatTime(subgraph.entity.createdAt))),
                          FALSE, <<>>, <<req>>, <<x.reply>>, x)
         : x \in RemoteReplies(rem, nid, "subgraph", req)}

\* SubgraphResource.Update storing the planned url, not the returned one
SubgraphResourceUpdateKeepsPlannedUrl(plan, prior, rem, nid) ==
    LET req == Request("UpdateSubgraph", <<>>, ValueString(plan, "id"),
                       ValueString(plan, "url"))
    IN  {LET subgraph == UpdateSubgraph(x.reply)
         IN  IF ~subgraph.ok
             THEN Outcome(prior, FALSE,
                          <<Diag("Client Error", "Unable to update subgraph: ", subgraph.err)>>,
                          <<req>>, <<x.reply>>, x)
             ELSE Outcome(plan, FALSE, <<>>, <<req>>, <<x.reply>>, x)
         : x \in RemoteReplies(rem, nid, "subgraph", req)}

\* SubgraphResource.Update refreshing created_at from the returned entity
SubgraphResourceUpdateRefreshesCreatedAt(plan, prior, rem, nid) ==
    LET req == Request("UpdateSubgraph", <<>>, ValueString(plan, "id"),
                       ValueString(plan, "url"))
    IN  {LET subgraph == UpdateSubgraph(x.reply)
         IN  IF ~subgraph.ok
             THEN Outcome(prior, FALSE,
                          <<Diag("Client Error", "Unable to update subgraph: ", subgraph.err)>>,
                          <<req>>, <<x.reply>>, x)
             ELSE Outcome(Set(Set(plan, "url", V(subgraph.entity.url)),
                              "created_at", V(FormatTime(subgraph.entity.createdAt))),
                          FALSE, <<>>, <<req>>, <<x.reply>>, x)
         : x \in RemoteReplies(rem, nid, "subgraph", req)}

\* SubgraphResource.Update
SubgraphResourceUpdate(plan, prior, rem, nid) ==
    LET req == Request("UpdateSubgraph", <<>>, ValueString(plan, "id"),
                       ValueString(plan, "url"))
    IN  {LET subgraph == UpdateSubgraph(x.reply)
         IN  IF ~subgraph.ok
             THEN Outcome(prior, FALSE,
                          <<Diag("Client Error", "Unable to update subgraph: ", subgraph.err)>>,
                          <<req>>, <<x.reply>>, x)
             ELSE Outcome(Set(plan, "url", V(subgraph.entity.url)), FALSE, <<>>,
                          <<req>>, <<x.reply>>, x)
         : x \in RemoteReplies(rem, nid, "subgraph", req)}

\* SubgraphResource.Delete
SubgraphResourceDelete(prior, rem, nid) ==
    LET req == Request("DeleteSubgraph", <<>>, ValueString(prior, "id"), EmptyString)
    IN  {LET done == DeleteSubgraph(x.reply)
         IN  IF ~done.ok
             THEN Outcome(prior, FALSE,
                          <<Diag("Client Error", "Unable to delete subgraph: ", done.err)>>,
                          <<req>>, <<x.reply>>, x)
             ELSE Outcome(prior, FALSE, <<>>, <<req>>, <<x.reply>>, x)
         : x \in RemoteReplies(rem, nid, "subgraph", req)}

\* SubgraphResource.ImportState that does not set url
SubgraphResourceImportStateWithoutUrl(id, rem, nid) ==
    LET p == parseSubgraphImportID(id)
        keyed == Set(Set(Absent, "branch_id", V(p.first)), "name", V(p.second))
        req == Request("GetSubgraph", <<p.first, p.second>>, EmptyString, EmptyString)
    IN  IF p.err
        THEN {Outcome(Absent, FALSE,
                      <<[summary |-> "Import Error",
                         detail |-> <<"Invalid import ID format.">>]>>,
                      <<>>, <<>>, Here(rem, nid))}
        ELSE {LET subgraph == GetSubgraph(x.reply)
              IN  IF ~subgraph.ok
                  THEN Outcome(keyed, FALSE,
                               <<Diag("Import Error", "Unable to read subgraph during import: ",
                                      subgraph.err)>>,
                               <<req>>, <<x.reply>>, x)
                  ELSE Outcome(Set(Set(keyed, "id", V(subgraph.entity.id)),
                                   "created_at", V(FormatTime(subgraph.entity.createdAt))),
                               FALSE, <<>>, <<req>>, <<x.reply>>, x)
              : x \in RemoteReplies(rem, nid, "subgraph", req)}

\* SubgraphResource.ImportState
SubgraphResourceImportState(id, rem, nid) ==
    LET p == parseSubgraphImportID(id)
        keyed == Set(Set(Absent, "branch_id", V(p.first)), "name", V(p.second))
        req == Request("GetSubgraph", <<p.first, p.second>>, EmptyString, EmptyString)
    IN  IF p.err
        THEN {Outcome(Absent, FALSE,
                      <<[summary |-> "Import Error",
                         detail |-> <<"Invalid import ID format.">>]>>,
                      <<>>, <<>>, Here(rem, nid))}
        ELSE {LET subgraph == GetSubgraph(x.reply)
              IN  IF ~subgraph.ok
                  THEN Outcome(keyed, FALSE,
                               <<Diag("Import Error", "Unable to read subgraph during import: ",
                                      subgraph.err)>>,
                               <<req>>, <<x.reply>>, x)
                  ELSE Outcome(Set(Set(Set(keyed, "id", V(subgraph.entity.id)),
                                       "url", V(subgraph.entity.url)),
                                   "created_at", V(FormatTime(subgraph.entity.createdAt))),
                               FALSE, <<>>, <<req>>, <<x.reply>>, x)
              : x \in RemoteReplies(rem, nid, "subgraph", req)}

\* the hooks of the resource type registered under each kind
CreateHook(k, plan, rem, nid) ==
    CASE k = "graph" -> GraphResourceCreate(plan, rem, nid)
      [] k = "branch" -> BranchResourceCreate(plan, rem, nid)
      [] k = "branch_by_id" -> BranchByIdResourceCreate(plan, rem, nid)
      [] k = "subgraph" -> SubgraphResourceCreate(plan, rem, nid)

ReadHook(k, prior, rem, nid) ==
    CASE k = "graph" -> GraphResourceRead(prior, rem, nid)
      [] k = "branch" -> BranchResourceRead(prior, rem, nid)
      [] k = "branch_by_id" -> BranchByIdResourceRead(prior, rem, nid)
      [] k = "subgraph" -> SubgraphResourceRead(prior, rem, nid)

UpdateHook(k, plan, prior, rem, nid) ==
    CASE k = "graph" -> GraphResourceUpdate(plan, prior, rem, nid)
      [] k = "branch" -> BranchResourceUpdate(plan, prior, rem, nid)
      [] k = "branch_by_id" -> BranchByIdResourceUpdate(plan, prior, rem, nid)
      [] k = "subgraph" -> SubgraphResourceUpdate(plan, prior, rem, nid)

DeleteHook(k, prior, rem, nid) ==
    CASE k = "graph" -> GraphResourceDelete(prior, rem, nid)
      [] k = "branch" -> BranchResourceDelete(prior, rem, nid)
      [] k = "branch_by_id" -> BranchByIdResourceDelete(prior, rem, nid)
      [] k = "subgraph" -> SubgraphResourceDelete(prior, rem, nid)

ImportStateHook(k, id, rem, nid) ==
    CASE k = "graph" -> GraphResourceImportState(id, rem, nid)
      [] k = "branch" -> BranchResourceImportState(id, rem, nid)
      [] k = "branch_by_id" -> BranchByIdResourceImportState(id, rem, nid)
      [] k = "subgraph" -> SubgraphResourceImportState(id, rem, nid)

(***************************************************************************)
(* The host runtime                                                        *)
(***************************************************************************)
\* the import key that names an identity
JoinKey(key) ==
    IF Len(key) = 3
    THEN key[1] \o <<Slash>> \o key[2] \o <<Slash>> \o key[3]
    ELSE key[1] \o <<Slash>> \o key[2]

\* the configuration that names an identity
ConfigOf(k, key) == [a \in Range(IdentityAttrs(k)) |->
                        V(key[CHOOSE i \in 1..Len(IdentityAttrs(k)) : IdentityAttrs(k)[i] = a])]

\* the configurations a practitioner may write; an Optional attribute may
\* be left out
Configs(k) ==
    CASE k = "subgraph" ->
            {Set(ConfigOf(k, key), "url", V(u)) : key \in Keys(k), u \in Urls}
      [] k = "branch" ->
            {ConfigOf(k, key) : key \in Keys(k)}
            \cup {Set(ConfigOf(k, key), "operation_checks_enabled", V(FALSE)) : key \in Keys(k)}
      [] OTHER -> {ConfigOf(k, key) : key \in Keys(k)}

\* the import keys handed to Import: every string over the letter and the
\* delimiter, long enough for a well-formed key of the kind
ImportIDs(k) == SeqsUpTo({97, Slash}, IF k = "branch" THEN MaxKeyLen ELSE MaxKeyLen - 2)

\* the planned state of a new instance: configured values, and unknown for
\* every Computed attribute the configuration leaves out
PlanForCreate(k, config) ==
    [a \in Attrs(k) |-> IF a \in DOMAIN config THEN config[a] ELSE Unknown]

\* the planned state of a changed instance: as above, but a Computed
\* attribute with UseStateForUnknown keeps its prior value
PlanForUpdate(k, config, prior) ==
    [a \in Attrs(k) |->
        IF a \in DOMAIN config THEN config[a]
        ELSE IF a \in UseStateForUnknown(k) /\ a \in DOMAIN prior THEN prior[a]
        ELSE Unknown]

\* the configured attributes whose planned value differs from the state
Differing(config, prior) ==
    {a \in DOMAIN config : a \notin DOMAIN prior \/ prior[a] # config[a]}

NeedsReplace(k, config, prior) == Differing(config, prior) \cap RequiresReplace(k) # {}

\* no parser has run
NotParsed == [graph |-> <<>>, subgraph |-> <<>>, branch |-> <<>>]

\* no function has been called on its own
NoUnit == [op |-> "none"]

NoCall ==
    [hook |-> "none", purpose |-> "none", prior |-> Absent, plan |-> Absent,
     id |-> <<>>, state |-> Absent, removed |-> FALSE, diags |-> <<>>,
     calls |-> <<>>, replies |-> <<>>, panic |-> FALSE]

Call(hook, purpose, prior, plan, id, o) ==
    [hook |-> hook, purpose |-> purpose, prior |-> prior, plan |-> plan,
     id |-> id, state |-> o.state, removed |-> o.removed, diags |-> o.diags,
     calls |-> o.calls, replies |-> o.replies, panic |-> o.panic]

\* resp.Diagnostics.HasError(), or the provider process died
HasError(o) == o.panic \/ o.diags # <<>>

Idle == last.hook = "none"

\* a replacement is under way: its Delete succeeded, its Create is due
ReplacePending ==
    /\ last.hook = "Delete"
    /\ last.purpose = "replace"
    /\ ~HasError(last)

\* what every hook call does to the variables; a call that failed after the
\* remote had carried out its request leaves a record of no known provenance
Commit(call, o, newRecord, newProvenance) ==
    /\ last' = call
    /\ remote' = o.remote
    /\ nextId' = o.nextId
    /\ record' = newRecord
    /\ provenance' = IF HasError(o) /\ o.remote # remote THEN "none" ELSE newProvenance
    /\ UNCHANGED <<kind, desired, importID, parsed, unit>>

Init ==
    /\ importID = <<>>
    /\ parsed = NotParsed
    /\ kind \in Kinds
    /\ remote = [key \in Keys(kind) |-> NoEntity]
    /\ nextId = 1
    /\ desired = Absent
    /\ record = Absent
    /\ provenance = "none"
    /\ last = NoCall
    /\ unit = NoUnit

\* the practitioner edits the configuration, or removes the instance from it
Configure ==
    /\ Idle
    /\ \E config \in Configs(kind) \cup {Absent} :
          /\ config # desired
          /\ desired' = config
    /\ UNCHANGED <<unit, importID, parsed, kind, remote, nextId, record, provenance, last>>

\* apply: the instance is configured and has no record
Create ==
    /\ Idle \/ ReplacePending
    /\ record = Absent
    /\ desired # Absent
    /\ LET plan == PlanForCreate(kind, desired)
           purpose == IF ReplacePending THEN "replace" ELSE "create"
       IN  \E o \in CreateHook(kind, plan, remote, nextId) :
              Commit(Call("Create", purpose, Absent, plan, <<>>, o), o,
                     IF HasError(o) THEN Absent ELSE o.state,
                     IF HasError(o) THEN "none" ELSE "created")

\* refresh
Read ==
    /\ Idle
    /\ record # Absent
    /\ \E o \in ReadHook(kind, record, remote, nextId) :
          Commit(Call("Read", "refresh", record, Absent, <<>>, o), o,
                 IF HasError(o) THEN record ELSE IF o.removed THEN Absent ELSE o.state,
                 IF HasError(o) THEN provenance
                 ELSE IF o.removed \/ provenance = "none" THEN "none"
                 ELSE "created_read")

\* apply: the configuration differs from the record in attributes none of
\* which requires replacement
Update ==
    /\ Idle
    /\ record # Absent
    /\ desired # Absent
    /\ Differing(desired, record) # {}
    /\ ~NeedsReplace(kind, desired, record)
    /\ LET plan == PlanForUpdate(kind, desired, record)
       IN  \E o \in UpdateHook(kind, plan, record, remote, nextId) :
              Commit(Call("Update", "update", record, plan, <<>>, o), o,
                     IF HasError(o) THEN record ELSE o.state,
                     IF HasError(o) THEN provenance ELSE "none")

\* apply: the instance left the configuration, or an attribute that
\* requires replacement differs
Delete ==
    /\ Idle
    /\ record # Absent
    /\ desired = Absent \/ NeedsReplace(kind, desired, record)
    /\ LET purpose == IF desired = Absent THEN "destroy" ELSE "replace"
       IN  \E o \in DeleteHook(kind, record, remote, nextId) :
              Commit(Call("Delete", purpose, record, Absent, <<>>, o), o,
                     IF HasError(o) THEN record ELSE Absent,
                     IF HasError(o) THEN provenance ELSE "none")

\* import of an entity under a key into an instance that has no record
Import ==
    /\ Idle
    /\ record = Absent
    /\ \E id \in ImportIDs(kind) :
          \E o \in ImportStateHook(kind, id, remote, nextId) :
              Commit(Call("Import", "import", Absent, Absent, id, o), o,
                     IF HasError(o) THEN Absent ELSE o.state, "none")

\* import of the recorded entity into a scratch state, to compare with the
\* record (as the acceptance tests' ImportStateVerify steps do)
ImportVerify ==
    /\ Idle
    /\ record # Absent
    /\ LET id == JoinKey(KeyOf(kind, record))
       IN  \E o \in ImportStateHook(kind, id, remote, nextId) :
              Commit(Call("Import", "verify", Absent, Absent, id, o), o,
                     record, provenance)

\* somebody else deletes an entity
OutOfBandDelete ==
    /\ Idle
    /\ \E key \in DOMAIN remote :
          /\ remote[key] # NoEntity
          /\ remote' = [remote EXCEPT ![key] = NoEntity]
    /\ provenance' = "none"
    /\ UNCHANGED <<unit, importID, parsed, kind, nextId, desired, record, last>>

\* somebody else creates an entity
OutOfBandCreate ==
    /\ Idle
    /\ nextId <= MaxId
    /\ \E key \in DOMAIN remote, u \in {Canonical(v) : v \in Urls} :
          /\ remote[key] = NoEntity
          /\ kind # "subgraph" => u = <<"u1">>
          /\ remote' = [remote EXCEPT ![key] =
                            [id |-> IdOf(nextId),
                             url |-> IF kind = "subgraph" THEN u ELSE EmptyString]]
    /\ nextId' = nextId + 1
    /\ provenance' = "none"
    /\ UNCHANGED <<unit, importID, parsed, kind, desired, record, last>>

\* the host has dealt with the result of the last call
Settle ==
    /\ ~Idle
    /\ ~ReplacePending
    /\ last' = NoCall
    /\ UNCHANGED <<unit, importID, parsed, kind, remote, nextId, desired, record, provenance>>

Next ==
    \/ Configure
    \/ Create
    \/ Read
    \/ Update
    \/ Delete
    \/ Import
    \/ ImportVerify
    \/ OutOfBandDelete
    \/ OutOfBandCreate
    \/ Settle

Spec == Init /\ [][Next]_vars

(***************************************************************************)
(* The Update hooks called directly                                        *)
(***************************************************************************)
\* the record of the entity held under a key with the n-th identifier, as
\* Create followed by Read leaves it
StoredRecord(k, key, n, url) ==
    LET identity == ConfigOf(k, key)
        id == IdOf(n)
    IN  CASE k = "branch" ->
                WithBranch(identity,
                           [id |-> id, environment |-> RemoteEnvironment(id),
                            operationChecksEnabled |-> RemoteChecksEnabled(id),
                            operationChecksIgnoreUsageData |-> RemoteIgnoreUsageData(id)])
          [] k = "subgraph" ->
                Set(Set(Set(identity, "id", V(id)), "url", V(url)),
                    "created_at", V(FormatTime(RemoteCreatedAt(id))))
          [] OTHER ->
                Set(Set(identity, "id", V(id)),
                    "created_at", V(FormatTime(RemoteCreatedAt(id))))

\* a host that hands the Update hook any configuration of the kind, be it
\* one the plan modifiers would have turned into a replacement
InitUpdate ==
    /\ importID = <<>>
    /\ parsed = NotParsed
    /\ kind \in Kinds
    /\ \E key \in Keys(kind), n \in 1..MaxId, u \in {Canonical(v) : v \in Urls} :
          /\ kind # "subgraph" => u = <<"u1">>
          /\ remote = [x \in Keys(kind) |->
                          IF x = key
                          THEN [id |-> IdOf(n),
                                url |-> IF kind = "subgraph" THEN u ELSE EmptyString]
                          ELSE NoEntity]
          /\ record = StoredRecord(kind, key, n, u)
          /\ nextId = n + 1
    /\ desired \in Configs(kind)
    /\ provenance = "none"
    /\ last = NoCall
    /\ unit = NoUnit

UpdateCall ==
    /\ Idle
    /\ record # Absent
    /\ LET plan == PlanForUpdate(kind, desired, record)
       IN  \E o \in UpdateHook(kind, plan, record, remote, nextId) :
              Commit(Call("Update", "update", record, plan, <<>>, o), o,
                     IF HasError(o) THEN record ELSE o.state,
                     IF HasError(o) THEN provenance ELSE "none")

NextUpdate == UpdateCall

SpecUpdate == InitUpdate /\ [][NextUpdate]_vars

(***************************************************************************)
(* The parsers on their own                                                *)
(***************************************************************************)
\* the letter a, the delimiter, and 0xFF, a byte of no well-formed UTF-8 text
ParseAlphabet == {97, Slash, 255}

InitParse ==
    /\ importID \in SeqsUpTo(ParseAlphabet, MaxLen)
    /\ parsed = NotParsed
    /\ kind = "graph"
    /\ remote = [key \in Keys(kind) |-> NoEntity]
    /\ nextId = 1
    /\ desired = Absent
    /\ record = Absent
    /\ provenance = "none"
    /\ last = NoCall
    /\ unit = NoUnit

ParseGraphID ==
    /\ parsed.graph = <<>>
    /\ parsed' = [parsed EXCEPT !.graph = <<parseImportID(importID)>>]
    /\ UNCHANGED <<importID, hostVars, unit>>

ParseSubgraphID ==
    /\ parsed.subgraph = <<>>
    /\ parsed' = [parsed EXCEPT !.subgraph = <<parseSubgraphImportID(importID)>>]
    /\ UNCHANGED <<importID, hostVars, unit>>

ParseBranchID ==
    /\ parsed.branch = <<>>
    /\ parsed' = [parsed EXCEPT !.branch = <<parseBranchImportID(importID)>>]
    /\ UNCHANGED <<importID, hostVars, unit>>

NextParse == ParseGraphID \/ ParseSubgraphID \/ ParseBranchID

SpecParse == InitParse /\ [][NextParse]_vars

(***************************************************************************)
(* Functions of the client and the provider called on their own            *)
(***************************************************************************)
\* texts of the errors a step of the exchange can fail with
StepErrors(text) == {NoErr, <<text>>}

\* bodies: plain text, a GraphQL response without errors, one with errors
\* and no data, one with errors and data, and texts that repeat the wording
\* of the client's own errors
Bodies ==
    { Body(<<"internal error">>, NotJson),
      Body(<<"GraphQL errors: ", "[", "boom", "]">>, NotJson),
      Body(<<"{data}">>, Document(<<>>, Field("node", JObject([id |-> <<"id-1">>])))),
      Body(<<"{data}">>, Document(<<>>, JNull)),
      Body(<<"{errors}">>, Document(<< <<"boom">> >>, JNull)),
      Body(<<"{errors}">>, Document(<< <<"API returned status ", "500", ": ", "boom">> >>, JNull)),
      Body(<<"{data,errors}">>,
           Document(<< <<"boom">> >>, Field("node", JObject([id |-> <<"id-1">>])))) }

Exchanges ==
    { Exchange(m, q, d, r, st, b) :
        m \in StepErrors("unsupported type"), q \in StepErrors("invalid URL"),
        d \in StepErrors("connection refused"), r \in StepErrors("unexpected EOF"),
        st \in {StatusOK, "500"}, b \in Bodies }

UnitCall(op, input) == [op |-> op, input |-> input, result |-> <<>>]

\* client.NewClient
NewClient(apiKey) == [apiKey |-> apiKey]

NoClient == [none |-> TRUE]

\* GrafbaseProvider.Configure as it would be if the environment came first
GrafbaseProviderConfigurePrefersEnvironment(in) ==
    IF in.getFails
    THEN [diags |-> <<Diag("Value Conversion Error", "config", NoErr)>>, client |-> NoClient]
    ELSE LET apiKey == IF in.env # EmptyString THEN in.env
                       ELSE ValueString(in.config, "api_key")
         IN  IF apiKey = EmptyString
             THEN [diags |-> <<Diag("Unable to find API key",
                                    "API key cannot be an empty string. ", NoErr)>>,
                   client |-> NoClient]
             ELSE [diags |-> <<>>, client |-> NewClient(apiKey)]

\* GrafbaseProvider.Configure: in.config is the provider block, in.env what
\* os.Getenv("GRAFBASE_API_KEY") returns ("" when the variable is not set),
\* in.getFails whether req.Config.Get raised an error
GrafbaseProviderConfigure(in) ==
    IF in.getFails
    THEN [diags |-> <<Diag("Value Conversion Error", "config", NoErr)>>, client |-> NoClient]
    ELSE LET apiKey == IF "api_key" \notin DOMAIN in.config THEN in.env
                       ELSE ValueString(in.config, "api_key")
         IN  IF apiKey = EmptyString
             THEN [diags |-> <<Diag("Unable to find API key",
                                    "API key cannot be an empty string. ", NoErr)>>,
                   client |-> NoClient]
             ELSE [diags |-> <<>>, client |-> NewClient(apiKey)]

\* provider blocks: api_key null, unknown, empty, set
ProviderConfigs ==
    {Absent} \cup {[a \in {"api_key"} |-> x] : x \in {Unknown, V(EmptyString), V(<<"key-a">>)}}

ProviderInputs ==
    {[config |-> c, env |-> e, getFails |-> g] :
        c \in ProviderConfigs, e \in {EmptyString, <<"key-e">>}, g \in BOOLEAN}

\* What the remote answers to the node(id) query of GetGraphByID: a failure,
\* an odd payload, no node, a node that is not a Graph (the fragment on
\* Graph selects nothing of it: an empty object), or the Graph
NodeReplies(id) ==
    FailureReplies("graph")
    \cup {Ok(d) : d \in OddPayloads}
    \cup {Ok(Field("node", v)) :
            v \in {JNull, JScalar, JObject(<<>>),
                   EntityJson("graph", <<A1, A1>>, [id |-> id, url |-> EmptyString])}}

UnitCalls ==
    {UnitCall("ExecuteQuery", x) : x \in Exchanges}
    \cup {UnitCall("Configure", in) : in \in ProviderInputs}
    \cup {UnitCall("GetGraphByID", [id |-> IdOf(n), reply |-> r]) :
            n \in 1..MaxId, r \in UNION {NodeReplies(IdOf(m)) : m \in 1..MaxId}}

InitUnit ==
    /\ unit \in UnitCalls
    /\ importID = <<>>
    /\ parsed = NotParsed
    /\ kind = "graph"
    /\ remote = [key \in Keys(kind) |-> NoEntity]
    /\ nextId = 1
    /\ desired = Absent
    /\ record = Absent
    /\ provenance = "none"
    /\ last = NoCall

ExecuteQueryCall ==
    /\ unit.op = "ExecuteQuery"
    /\ unit.result = <<>>
    /\ unit' = [unit EXCEPT !.result = <<ExecuteQueryOf(unit.input)>>]
    /\ UNCHANGED <<parseVars, hostVars>>

ProviderConfigureCall ==
    /\ unit.op = "Configure"
    /\ unit.result = <<>>
    /\ unit' = [unit EXCEPT !.result = <<GrafbaseProviderConfigure(unit.input)>>]
    /\ UNCHANGED <<parseVars, hostVars>>

GetGraphByIDCall ==
    /\ unit.op = "GetGraphByID"
    /\ unit.result = <<>>
    /\ unit' = [unit EXCEPT !.result = <<GetGraphByID(unit.input.reply)>>]
    /\ UNCHANGED <<parseVars, hostVars>>

NextUnit == ExecuteQueryCall \/ ProviderConfigureCall \/ GetGraphByIDCall

SpecUnit == InitUnit /\ [][NextUnit]_vars

(***************************************************************************)
(* Two hook calls on distinct instances, interleaved                       *)
(***************************************************************************)
\* Each call runs on a resource value of its own (the factory makes one per
\* call, Configure stores the provider's client in it) and keeps the plan,
\* the request, the response and the decoded data in variables of its own.
\* The one thing the calls share is the client, whose fields are set by
\* NewClient and only read afterwards.
Procs == {1, 2}

Other(p) == 3 - p

\* where ExecuteQuery keeps the response it read, if that were a field of
\* the shared client
SharedResponseSlot(p) == 0

\* where ExecuteQuery keeps the response it read: resp, body and
\* graphqlResp are variables of the call
ResponseSlot(p) == p

NoReply == [class |-> "none"]

\* the instance of process p: an entity with identifier p under the base key
ProcRemote(k, p) ==
    [x \in Keys(k) |->
        IF x = CHOOSE key \in Keys(k) : \A i \in 1..Len(key) : key[i] = A1
        THEN [id |-> IdOf(p), url |-> IF k = "subgraph" THEN <<"u1">> ELSE EmptyString]
        ELSE NoEntity]

ProcRecord(k, p) ==
    StoredRecord(k, CHOOSE key \in Keys(k) : \A i \in 1..Len(key) : key[i] = A1, p, <<"u1">>)

\* the outcomes of the hook of a process
ProcOutcomes(proc, p) ==
    IF proc.hook = "Read"
    THEN ReadHook(proc.kind, proc.prior, ProcRemote(proc.kind, p), 3)
    ELSE DeleteHook(proc.kind, proc.prior, ProcRemote(proc.kind, p), 3)

\* what the hook hands back when its request was answered with the reply
HookResult(proc, p, reply) ==
    {[state |-> o.state, removed |-> o.removed, diags |-> o.diags, panic |-> o.panic] :
        o \in {x \in ProcOutcomes(proc, p) : x.replies = <<reply>>}}

NewProc(k, hook, p) ==
    [kind |-> k, hook |-> hook, prior |-> ProcRecord(k, p), pc |-> "start",
     client |-> NoClient, auth |-> EmptyString, delivered |-> NoReply,
     overlapped |-> FALSE, result |-> {}]

InitConcurrent ==
    /\ \E k \in Kinds, h1, h2 \in {"Read", "Delete"} :
          unit = [op |-> "Concurrent",
                  client |-> NewClient(<<"key-a">>),
                  slots |-> [i \in {0} \cup Procs |-> NoReply],
                  procs |-> [p \in Procs |->
                                NewProc(IF p = 1 THEN "graph" ELSE k,
                                        IF p = 1 THEN h1 ELSE h2, p)]]
    /\ importID = <<>>
    /\ parsed = NotParsed
    /\ kind = "graph"
    /\ remote = [key \in Keys(kind) |-> NoEntity]
    /\ nextId = 1
    /\ desired = Absent
    /\ record = Absent
    /\ provenance = "none"
    /\ last = NoCall

\* Configure of the resource, then the request: the call reads the client
ProcSend(p) ==
    /\ unit.procs[p].pc = "start"
    /\ unit' = [unit EXCEPT !.procs[p].pc = "waiting",
                            !.procs[p].client = unit.client,
                            !.procs[p].auth = unit.client.apiKey]
    /\ UNCHANGED <<parseVars, hostVars>>

\* httpClient.Do and io.ReadAll return what the remote answered
ProcReceive(p) ==
    /\ unit.procs[p].pc = "waiting"
    /\ \E o \in ProcOutcomes(unit.procs[p], p) :
          unit' = [unit EXCEPT !.procs[p].pc = "received",
                               !.procs[p].delivered = o.replies[1],
                               !.procs[p].overlapped = (unit.procs[Other(p)].pc = "received"),
                               !.slots[ResponseSlot(p)] = o.replies[1]]
    /\ UNCHANGED <<parseVars, hostVars>>

\* the rest of the hook: decode the response, set state or diagnostics
ProcFinish(p) ==
    /\ unit.procs[p].pc = "received"
    /\ unit' = [unit EXCEPT !.procs[p].pc = "done",
                            !.procs[p].result =
                                HookResult(unit.procs[p], p, unit.slots[ResponseSlot(p)])]
    /\ UNCHANGED <<parseVars, hostVars>>

NextConcurrent == \E p \in Procs : ProcSend(p) \/ ProcReceive(p) \/ ProcFinish(p)

SpecConcurrent == InitConcurrent /\ [][NextConcurrent]_vars

(***************************************************************************)
(* What the replies say, read off the reply itself                         *)
(***************************************************************************)
ErrorFree(reply) == reply.class = "graphql" /\ reply.errors = <<>>

\* an error-free reply to a lookup that holds no entity
ReplyHasNoEntity(k, reply) ==
    /\ ErrorFree(reply)
    /\ reply.data.t \in {"null", "object"}
    /\ Member(reply.data, LookupField(k)).t \in {"null", "absent"}

\* a lookup that failed: transport, status, malformed body, errors array
ReplyIsFailure(k, reply) ==
    \/ ~ErrorFree(reply)
    \/ reply.data.t \in {"absent", "scalar"}
    \/ Member(reply.data, LookupField(k)).t = "scalar"

\* the nested entity of the success variant of a create reply
CreatedEntity(k, reply) == Member(Member(reply.data, CreateField(k)), EntityMember(k))

ReplyIsCreateSuccess(k, reply) ==
    /\ ErrorFree(reply)
    /\ CreatedEntity(k, reply).t = "object"
    /\ "id" \in DOMAIN CreatedEntity(k, reply).m
    /\ CreatedEntity(k, reply).m.id # EmptyString

\* the create reply is a named failure variant
ReplyIsNamedFailure(k, reply) ==
    /\ ErrorFree(reply)
    /\ TypenameOf(Member(reply.data, CreateField(k))) # ""

\* the delete reply is the ...DoesNotExistError variant, which the id-keyed
\* mutations select by its `query` member and the slug-keyed one by its tag
ReplyIsDoesNotExist(k, reply) ==
    /\ ErrorFree(reply)
    /\ LET r == Member(reply.data, DeleteField(k))
       IN  IF k = "branch" THEN TypenameOf(r) = "BranchDoesNotExistError"
           ELSE r.t = "object" /\ "query" \in DOMAIN r.m

LastReply == last.replies[Len(last.replies)]

ApplyStep == last.hook \in {"Create", "Update", "Delete"}

(***************************************************************************)
(* C1                                                                      *)
(***************************************************************************)
DeleteOps == {"DeleteGraph", "DeleteBranch", "DeleteSubgraph"}

\* C1: when the configured value of an identity attribute differs from the
\* record, the apply step that follows is a Delete of the recorded entity,
\* a successful such Delete is followed by a Create for the configured
\* identity, and neither the Update hook nor the update mutation is ever
\* used with an identity that differs from the record's.
C1_IdentityChangeIsReplacement ==
    [][ /\ ( /\ Idle
             /\ record # Absent
             /\ desired # Absent
             /\ KeyOf(kind, desired) # KeyOf(kind, record)
             /\ ApplyStep' )
           => /\ last'.hook = "Delete"
              /\ last'.purpose = "replace"
              /\ Len(last'.calls) = 1
              /\ last'.calls[1].op \in DeleteOps
              /\ IF kind = "branch"
                 THEN last'.calls[1].key = KeyOf(kind, record)
                 ELSE last'.calls[1].id = record["id"].v
        /\ ReplacePending
           => /\ last'.hook = "Create"
              /\ KeyOf(kind, last'.plan) = KeyOf(kind, desired)
        /\ last'.hook = "Update"
           => KeyOf(kind, last'.plan) = KeyOf(kind, last'.prior)
        /\ \A i \in 1..Len(last'.calls) :
              last'.calls[i].op = "UpdateSubgraph"
              => /\ last'.hook = "Update"
                 /\ KeyOf(kind, last'.plan) = KeyOf(kind, last'.prior)
      ]_vars

\* a replacement that ran to its end: Delete, then Create, both succeeded
C1_Witness ==
    /\ last.hook = "Create"
    /\ last.purpose = "replace"
    /\ ~HasError(last)
    /\ record # Absent

(***************************************************************************)
(* C2                                                                      *)
(***************************************************************************)
ReturnedUrl(reply) == Member(Member(reply.data, "subgraphUpdate"), "subgraph").m.url

\* C2: when the subgraph configuration differs from the record in url
\* alone, the apply step is the Update hook making the one request
\* UpdateSubgraph(recorded id, configured url); when it succeeds the
\* record's url is the url of the reply and its id is as before.
C2_UrlChangeIsOneUpdate ==
    [][ ( /\ Idle
          /\ kind = "subgraph"
          /\ record # Absent
          /\ desired # Absent
          /\ Differing(desired, record) = {"url"}
          /\ ApplyStep' )
        => /\ last'.hook = "Update"
           /\ last'.calls = <<Request("UpdateSubgraph", <<>>, record["id"].v,
                                      desired["url"].v)>>
           /\ ~HasError(last')
              => /\ record'["url"] = V(ReturnedUrl(last'.replies[1]))
                 /\ record'["id"] = record["id"]
      ]_vars

\* a url-only update succeeded and the remote returned another spelling
\* of the url than the planned one
C2_Witness ==
    /\ kind = "subgraph"
    /\ last.hook = "Update"
    /\ ~HasError(last)
    /\ Differing(desired, last.prior) = {"url"}
    /\ record["url"] # last.plan["url"]

(***************************************************************************)
(* C3                                                                      *)
(***************************************************************************)
\* C3: a Read whose lookup reply is error-free and holds no entity removes
\* the record and raises nothing; a Read whose lookup failed in any other
\* way raises a diagnostic and leaves the record as it was.
C3_ReadNotFoundRemoves ==
    last.hook = "Read" =>
        /\ ReplyHasNoEntity(kind, LastReply)
           => /\ record = Absent
              /\ last.diags = <<>>
              /\ ~last.panic
        /\ ReplyIsFailure(kind, LastReply)
           => /\ last.diags # <<>>
              /\ record = last.prior

\* a Read found no entity and removed the record
C3_Witness ==
    /\ last.hook = "Read"
    /\ ReplyHasNoEntity(kind, LastReply)
    /\ last.prior # Absent
    /\ record = Absent

(***************************************************************************)
(* C4                                                                      *)
(***************************************************************************)
\* C4: a Delete whose mutation reply is the ...DoesNotExistError variant
\* raises no diagnostic and leaves the record absent, for every resource.
C4_DeleteOfMissingIsNoOp ==
    (last.hook = "Delete" /\ ReplyIsDoesNotExist(kind, LastReply)) =>
        /\ last.diags = <<>>
        /\ ~last.panic
        /\ record = Absent

(***************************************************************************)
(* C5                                                                      *)
(***************************************************************************)
\* the value a computed attribute has in the entity of a reply
FromResponse(a, e) ==
    CASE a = "id" -> e.id
      [] a = "created_at" -> [sec |-> e.createdAt.sec]
      [] a = "environment" -> e.environment
      [] a = "operation_checks_enabled" -> e.operationChecksEnabled
      [] a = "operation_checks_ignore_usage_data" -> e.operationChecksIgnoreUsageData

\* C5: after a Create whose mutation returned the success variant with a
\* non-empty id, the record is present, its id and every computed attribute
\* hold the values of that reply, and its Required attributes hold the
\* planned values.
C5_CreateStoresResponse ==
    (last.hook = "Create" /\ last.replies # <<>>
        /\ last.calls[Len(last.calls)].op # "GetAccountBySlug"
        /\ ReplyIsCreateSuccess(kind, LastReply)) =>
        /\ record # Absent
        /\ ~HasError(last)
        /\ \A a \in ComputedAttrs(kind) \cup OptionalComputedAttrs(kind) :
              /\ a \in DOMAIN record
              /\ record[a] = V(FromResponse(a, CreatedEntity(kind, LastReply).m))
        /\ \A a \in Range(IdentityAttrs(kind)) \cup MutableAttrs(kind) :
              /\ a \in DOMAIN record
              /\ record[a] = last.plan[a]

\* a slug-keyed branch was created with a flag configured, and the record
\* holds the reply's values
C5_Witness ==
    /\ kind = "branch"
    /\ last.hook = "Create"
    /\ ~HasError(last)
    /\ "operation_checks_enabled" \in DOMAIN desired
    /\ record # Absent
    /\ record["environment"] = V(<<"PRODUCTION">>)

(***************************************************************************)
(* C6                                                                      *)
(***************************************************************************)
\* C6: after a Create whose mutation returned a named failure variant, the
\* diagnostic text contains the variant's tag, the record is absent and no
\* id was set.
C6_CreateFailureNamesTag ==
    (last.hook = "Create" /\ last.replies # <<>>
        /\ last.calls[Len(last.calls)].op # "GetAccountBySlug"
        /\ ReplyIsNamedFailure(kind, LastReply)) =>
        /\ last.diags # <<>>
        /\ Contains(last.diags[1].detail,
                    TypenameOf(Member(LastReply.data, CreateField(kind))))
        /\ record = Absent
        /\ "id" \notin DOMAIN last.state

(***************************************************************************)
(* C7                                                                      *)
(***************************************************************************)
CountSlashes(s) == Cardinality({i \in 1..Len(s) : s[i] = Slash})

SlashAt(s) == CHOOSE i \in 1..Len(s) : s[i] = Slash

WellFormedKey2(s) ==
    /\ CountSlashes(s) = 1
    /\ SlashAt(s) > 1
    /\ SlashAt(s) < Len(s)

\* C7: parseImportID succeeds exactly on the strings with one '/' and a
\* non-empty part on each side, and then returns the two parts unchanged.
C7_ParseImportID ==
    parsed.graph # <<>> =>
        LET r == parsed.graph[1]
        IN  /\ r.err = ~WellFormedKey2(importID)
            /\ ~r.err =>
                  /\ r.first = SubSeq(importID, 1, SlashAt(importID) - 1)
                  /\ r.second = SubSeq(importID, SlashAt(importID) + 1, Len(importID))

(***************************************************************************)
(* C8                                                                      *)
(***************************************************************************)
\* the key has another number of segments than the kind's identity, or an
\* empty segment
MalformedKey(k, id) ==
    \/ CountSlashes(id) + 1 # Len(IdentityAttrs(k))
    \/ id = <<>>
    \/ Head(id) = Slash
    \/ id[Len(id)] = Slash
    \/ \E i \in 1..(Len(id) - 1) : id[i] = Slash /\ id[i + 1] = Slash

\* C8: an Import with a malformed key raises an 'Import Error' diagnostic,
\* makes no request and sets no attribute, for every resource.
C8_MalformedKeyIsRejected ==
    (last.hook = "Import" /\ MalformedKey(kind, last.id)) =>
        /\ last.diags # <<>>
        /\ last.diags[1].summary = "Import Error"
        /\ last.calls = <<>>
        /\ last.state = Absent

(***************************************************************************)
(* C9                                                                      *)
(***************************************************************************)
\* what the host can tell from a hook's result without reading free text
Signal(c) ==
    [removed |-> c.removed, panic |-> c.panic,
     summaries |-> {c.diags[i].summary : i \in 1..Len(c.diags)}]

\* C9: the result of an Import whose lookup found no entity differs, in
\* what it signals, from the result of the same Import with any failed
\* lookup.
C9_ImportNotFoundIsDistinct ==
    (last.hook = "Import" /\ last.replies # <<>> /\ ReplyHasNoEntity(kind, LastReply)) =>
        \A o \in ImportStateHook(kind, last.id, remote, nextId) :
            ReplyIsFailure(kind, o.replies[1]) => Signal(o) # Signal(last)

(***************************************************************************)
(* C10                                                                     *)
(***************************************************************************)
\* C10: when the record is the one held after Create followed by Read and
\* the remote has not changed since, an Import by the record's composite
\* key that succeeds produces a state equal to the record in every
\* attribute.
C10_ImportEqualsCreateThenRead ==
    (last.hook = "Import" /\ last.purpose = "verify" /\ ~HasError(last)
        /\ provenance = "created_read") =>
        /\ DOMAIN last.state = Attrs(kind)
        /\ last.state = record

\* a subgraph created with a url the remote spells otherwise, read, and
\* then imported by its key
C10_Witness ==
    /\ kind = "subgraph"
    /\ last.hook = "Import"
    /\ last.purpose = "verify"
    /\ ~HasError(last)
    /\ provenance = "created_read"
    /\ desired # Absent
    /\ "url" \in DOMAIN desired
    /\ desired["url"] = V(<<"u2/">>)
    /\ record["url"] = V(<<"u2">>)

(***************************************************************************)
(* C11                                                                     *)
(***************************************************************************)
\* the delete reply is the remote's refusal to delete a production branch:
\* the tagged variant where the mutation selects the tag, and the object
\* with no selected member where it selects none for that variant
ReplyIsProductionRefusal(k, reply) ==
    /\ ErrorFree(reply)
    /\ LET r == Member(reply.data, "branchDelete")
       IN  IF k = "branch" THEN TypenameOf(r) = "CannotDeleteProductionBranchError"
           ELSE r = JObject(<<>>)

\* the production branch the record stands for is held by the remote
RecordedProductionBranch ==
    /\ IsBranch(kind)
    /\ record # Absent
    /\ IF kind = "branch"
       THEN /\ KeyOf(kind, record) \in DOMAIN remote
            /\ remote[KeyOf(kind, record)] # NoEntity
            /\ RemoteEnvironment(remote[KeyOf(kind, record)].id) = <<"PRODUCTION">>
       ELSE /\ HeldUnder(remote, record["id"].v) # {}
            /\ RemoteEnvironment(record["id"].v) = <<"PRODUCTION">>

\* C11: a Delete of a branch that the remote refuses to delete because it
\* is the production branch raises a diagnostic and leaves the record and
\* the remote branch as they were, at every such Delete.
C11_ProductionBranchIsKept ==
    [][ ( /\ RecordedProductionBranch
          /\ last'.hook = "Delete"
          /\ ReplyIsProductionRefusal(kind, last'.replies[1]) )
        => /\ last'.diags # <<>>
           /\ ~last'.panic
           /\ record' = record
           /\ remote' = remote
      ]_vars

\* the Delete of a recorded production branch was refused and reported
C11_Witness ==
    /\ kind = "branch"
    /\ last.hook = "Delete"
    /\ ReplyIsProductionRefusal(kind, LastReply)
    /\ last.diags # <<>>
    /\ record # Absent
    /\ remote[KeyOf(kind, record)] # NoEntity

(***************************************************************************)
(* C12                                                                     *)
(***************************************************************************)
\* C12: whenever the Update hook of the graph resource or of either branch
\* resource is called, it raises an 'Update Not Supported' diagnostic,
\* makes no request, does not crash, and leaves the state of its response
\* and the record as they were.
C12_UpdateNotSupported ==
    (last.hook = "Update" /\ kind # "subgraph") =>
        /\ Len(last.diags) = 1
        /\ last.diags[1].summary = "Update Not Supported"
        /\ last.calls = <<>>
        /\ ~last.panic
        /\ last.state = last.prior
        /\ record = last.prior

\* the Update hook of the graph resource was called with a changed slug
C12_Witness ==
    /\ kind = "graph"
    /\ last.hook = "Update"
    /\ KeyOf(kind, last.plan) # KeyOf(kind, last.prior)
    /\ last.diags # <<>>

(***************************************************************************)
(* C13                                                                     *)
(***************************************************************************)
\* a 200-status reply with a non-empty errors array
ReplyCarriesErrors(reply) == reply.class = "graphql" /\ reply.errors # <<>>

\* C13: whenever a hook receives a 200-status reply with a non-empty
\* errors array, ExecuteQuery fails on it, whatever its data, and the call
\* leaves the record as it was.
C13_ErrorsArrayFailsTheCall ==
    [][ \A i \in 1..Len(last'.replies) :
            (~Idle' /\ ReplyCarriesErrors(last'.replies[i])) =>
                /\ ExecuteQuery(last'.replies[i]).err # NoErr
                /\ record' = record
      ]_vars


\* the failure class of an exchange, in the terms of the claims: the first
\* step that went wrong
FailureClass(x) ==
    IF x.marshalErr # NoErr \/ x.requestErr # NoErr THEN "request"
    ELSE IF x.doErr # NoErr \/ x.readErr # NoErr THEN "network"
    ELSE IF x.status # StatusOK THEN "status"
    ELSE IF ~x.body.doc.valid THEN "badjson"
    ELSE IF x.body.doc.errors # <<>> THEN "errors"
    ELSE "none"

\* C14: ExecuteQuery fails exactly on the exchanges of a failure class; the
\* error of one class differs from the error of every exchange of another
\* class; the error of a status other than 200 is made of the status code
\* and the raw body, and comes with no response and no data even when the
\* body is a well-formed GraphQL response.
C14_FailureClassesAreDistinct ==
    (unit.op = "ExecuteQuery" /\ unit.result # <<>>) =>
        LET x == unit.input
            r == unit.result[1]
        IN  /\ (r.err = NoErr) <=> (FailureClass(x) = "none")
            /\ \A y \in Exchanges :
                  FailureClass(y) # FailureClass(x) => ExecuteQueryOf(y).err # r.err
            /\ FailureClass(x) = "status" =>
                  /\ r.err = <<"API returned status ", x.status, ": ">> \o x.body.text
                  /\ r.resp = JAbsent
                  /\ r.data = JAbsent

C14_Witness ==
    /\ unit.op = "ExecuteQuery"
    /\ unit.result # <<>>
    /\ FailureClass(unit.input) = "status"
    /\ unit.input.body.doc.valid
    /\ unit.input.body.doc.errors = <<>>
    /\ unit.input.body.doc.data.t = "object"
    /\ unit.result[1].err # NoErr


\* the key the provider block and the environment designate: the api_key
\* attribute when it is not null, the environment variable otherwise
DesignatedKey(in) ==
    IF "api_key" \in DOMAIN in.config THEN ValueString(in.config, "api_key") ELSE in.env

\* C15: the client the provider hands to the resources carries the api_key
\* attribute when that is not null, and the GRAFBASE_API_KEY variable
\* otherwise; when that key is empty, configuration raises an error
\* diagnostic and hands over no client.
C15_ApiKeyResolution ==
    (unit.op = "Configure" /\ unit.result # <<>>) =>
        LET in == unit.input
            r == unit.result[1]
        IN  /\ (r.client = NoClient) <=> (r.diags # <<>>)
            /\ r.client # NoClient => r.client.apiKey = DesignatedKey(in)
            /\ DesignatedKey(in) = EmptyString =>
                  /\ r.client = NoClient
                  /\ r.diags # <<>>

C15_Witness ==
    /\ unit.op = "Configure"
    /\ unit.result # <<>>
    /\ "api_key" \in DOMAIN unit.input.config
    /\ unit.input.config["api_key"] = V(<<"key-a">>)
    /\ unit.input.env = <<"key-e">>
    /\ unit.result[1].client = NewClient(<<"key-a">>)


\* ExecuteQuery returned an error for the reply
RequestFailed(reply) == ExecuteQuery(reply).err # NoErr

\* C16: within one hook call every request has exactly one reply, no
\* operation is requested twice, and a request that failed is the last one
\* of the call and leaves the call with a diagnostic.
C16_NoRetries ==
    /\ Len(last.calls) = Len(last.replies)
    /\ \A i, j \in 1..Len(last.calls) : last.calls[i].op = last.calls[j].op => i = j
    /\ \A i \in 1..Len(last.replies) :
          RequestFailed(last.replies[i]) =>
              /\ i = Len(last.replies)
              /\ last.diags # <<>>


\* the reply to the node(id) query is free of errors and carries no Graph:
\* the node is null, or an object without an id
ReplyHasNoGraph(reply) ==
    /\ ErrorFree(reply)
    /\ reply.data.t = "object"
    /\ \/ Member(reply.data, "node").t \in {"null", "absent"}
       \/ /\ Member(reply.data, "node").t = "object"
          /\ \/ "id" \notin DOMAIN Member(reply.data, "node").m
             \/ Member(reply.data, "node").m["id"] = EmptyString

\* C17: GetGraphByID fails with "graph not found" whenever the reply
\* carries no Graph, and never returns a Graph whose id is empty.
C17_NoGraphIsNotFound ==
    (unit.op = "GetGraphByID" /\ unit.result # <<>>) =>
        LET r == unit.result[1]
        IN  /\ ReplyHasNoGraph(unit.input.reply) => r.err = <<"graph not found">>
            /\ r.ok => r.entity.id # EmptyString


CreateOps == {"CreateGraph", "CreateBranch", "CreateSubgraph"}

\* C18: the first request of every Create hook is the create mutation, and
\* a Create hook that raises a diagnostic raises it for the create mutation.
C18_CreateMutationComesFirst ==
    last.hook = "Create" =>
        /\ last.calls # <<>>
        /\ last.calls[1].op \in CreateOps
        /\ last.diags # <<>> => last.calls[Len(last.calls)].op \in CreateOps


RemoteAssignedBranchAttrs ==
    {"environment", "operation_checks_enabled", "operation_checks_ignore_usage_data"}

\* C20: for the slug-keyed branch, the configuration never holds a value
\* for environment or for either operation-checks flag, and after a Create
\* or Read that succeeded the record holds for each of them a value that
\* no configured value differs from.
C20_RemoteAssignedAreReadOnly ==
    (kind = "branch" /\ last.hook \in {"Create", "Read"} /\ ~HasError(last)
        /\ record # Absent) =>
        \A a \in RemoteAssignedBranchAttrs :
            /\ a \notin DOMAIN desired
            /\ a \in DOMAIN record
            /\ IsKnown(last.plan, a) => record[a] = last.plan[a]


(***************************************************************************)
(* C21                                                                     *)
(***************************************************************************)
\* C21: for a graph, a Read of a record whose entity the remote no longer
\* holds, answered with no entity, removes the record and raises nothing;
\* and a Create that succeeds leaves a record under the planned account_slug
\* and slug whose id and created_at are those of the entity the remote made
\* for this request, an id that no entity held before.
C21_RecreateAfterDisappearance ==
    [][ (kind = "graph" /\ Idle) =>
          /\ ( /\ last'.hook = "Read"
               /\ remote[KeyOf(kind, record)] = NoEntity
               /\ ReplyHasNoEntity(kind, last'.replies[1]) )
             => /\ record' = Absent
                /\ last'.diags = <<>>
          /\ (last'.hook = "Create" /\ ~HasError(last'))
             => /\ record' # Absent
                /\ KeyOf(kind, record') = KeyOf(kind, last'.plan)
                /\ record'["id"] = V(IdOf(nextId))
                /\ record'["created_at"] = V(FormatTime(RemoteCreatedAt(IdOf(nextId))))
                /\ remote'[KeyOf(kind, record')].id = IdOf(nextId)
                /\ \A key \in DOMAIN remote : remote[key].id # IdOf(nextId)
      ]_vars

\* a graph was created again after the entity with the first identifier
\* had disappeared, and the record holds the second identifier
C21_Witness ==
    /\ kind = "graph"
    /\ last.hook = "Create"
    /\ ~HasError(last)
    /\ record # Absent
    /\ record["id"] = V(IdOf(2))
    /\ \A key \in DOMAIN remote : remote[key].id # IdOf(1)
    /\ desired # Absent
    /\ KeyOf(kind, record) = KeyOf(kind, desired)


(***************************************************************************)
(* C22                                                                     *)
(***************************************************************************)
\* the create reply is the "already exists" variant
ReplyIsAlreadyExists(k, reply) ==
    /\ ErrorFree(reply)
    /\ TypenameOf(Member(reply.data, CreateField(k))) = AlreadyExistsTag(k)

\* C22: a Create for a key under which the remote already holds an entity
\* still requests the create mutation unless an earlier request of the call
\* failed, and ends with an error and no record; when the remote answers
\* with its "already exists" variant the hook raises a diagnostic, the
\* record stays absent and the remote is left as it was.
C22_CreateOfExistingFails ==
    [][ last'.hook = "Create" /\ last' # last =>
          LET n == Len(last'.calls)
          IN  /\ remote[KeyOf(kind, last'.plan)] # NoEntity
                 => /\ n > 0
                    /\ \/ last'.calls[n].op \in CreateOps
                       \/ /\ last'.calls[n].op = "GetAccountBySlug"
                          /\ last'.diags # <<>>
                    /\ HasError(last')
                    /\ record' = Absent
              /\ ( /\ n > 0
                   /\ last'.calls[n].op \in CreateOps
                   /\ ReplyIsAlreadyExists(kind, last'.replies[n]) )
                 => /\ last'.diags # <<>>
                    /\ ~last'.panic
                    /\ record' = Absent
                    /\ remote' = remote
      ]_vars

\* a Create met an entity under its key and was answered "already exists"
C22_Witness ==
    /\ last.hook = "Create"
    /\ last.calls # <<>>
    /\ last.calls[Len(last.calls)].op \in CreateOps
    /\ ReplyIsAlreadyExists(kind, LastReply)
    /\ remote[KeyOf(kind, last.plan)] # NoEntity
    /\ last.diags # <<>>
    /\ record = Absent


(***************************************************************************)
(* C23                                                                     *)
(***************************************************************************)
\* what the entity operation of a request returned for its reply
OperationResult(k, op, reply) ==
    CASE op = "GetAccountBySlug" -> GetAccountBySlug(reply)
      [] op = "GetGraph" -> GetGraph(reply)
      [] op = "GetBranch" ->
            IF k = "branch" THEN GetBranchBySlug(reply) ELSE GetBranchByGraphId(reply)
      [] op = "GetSubgraph" -> GetSubgraph(reply)
      [] op = "CreateGraph" -> CreateGraph(reply)
      [] op = "CreateBranch" ->
            IF k = "branch" THEN CreateBranchBySlug(reply) ELSE CreateBranchByGraphId(reply)
      [] op = "CreateSubgraph" -> CreateSubgraph(reply)
      [] op = "UpdateSubgraph" -> UpdateSubgraph(reply)
      [] op = "DeleteGraph" -> DeleteGraph(reply)
      [] op = "DeleteBranch" ->
            IF k = "branch" THEN DeleteBranchBySlug(reply) ELSE DeleteBranchById(reply)
      [] op = "DeleteSubgraph" -> DeleteSubgraph(reply)

\* C23: a hook call in which an operation returned an error ends without a
\* diagnostic only when it is a Delete whose reply is the remote's "does
\* not exist" variant, or a Read whose lookup reply is error-free and holds
\* no entity.
C23_OnlyIdempotentCasesAreSwallowed ==
    \A i \in 1..Len(last.calls) :
        ( /\ OperationResult(kind, last.calls[i].op, last.replies[i]).err # NoErr
          /\ last.diags = <<>> ) =>
            \/ last.hook = "Delete" /\ ReplyIsDoesNotExist(kind, last.replies[i])
            \/ last.hook = "Read" /\ ReplyHasNoEntity(kind, last.replies[i])


(***************************************************************************)
(* C24                                                                     *)
(***************************************************************************)
MutationOps == CreateOps \cup {"UpdateSubgraph"}

\* the member of the data that holds the payload of a mutation
MutationField(k, op) == IF op = "UpdateSubgraph" THEN "subgraphUpdate" ELSE CreateField(k)

\* the leading text of the generic failure of a mutation
GenericFailure(op) ==
    CASE op = "CreateGraph" -> "graph creation failed: "
      [] op = "CreateBranch" -> "branch creation failed: "
      [] op = "CreateSubgraph" -> "subgraph creation failed: "
      [] op = "UpdateSubgraph" -> "subgraph update failed: "

\* the payload a create or update mutation decodes: the reply is free of
\* errors and its data is a document with members
MutationPayload(k, op, reply) == Member(reply.data, MutationField(k, op))

\* C24: a create or update operation returns an entity exactly when the
\* payload has the success shape with a non-empty nested id; for every
\* other payload it returns the generic failure of the operation followed
\* by the payload printed as a map.
C24_SuccessShapeFirst ==
    \A i \in 1..Len(last.calls) :
        ( /\ last.calls[i].op \in MutationOps
          /\ ErrorFree(last.replies[i])
          /\ last.replies[i].data.t \in {"null", "object"} ) =>
            LET op == last.calls[i].op
                raw == MutationPayload(kind, op, last.replies[i])
                res == OperationResult(kind, op, last.replies[i])
            IN  /\ res.ok <=> SuccessShape(raw, EntityMember(kind))
                /\ res.ok => res.entity.id # EmptyString
                /\ ~res.ok => res.err = <<GenericFailure(op)>> \o MapText(raw)


(***************************************************************************)
(* C25                                                                     *)
(***************************************************************************)
\* C25: a Read requests the entity by the identity attributes of the
\* record and not by its id; when it succeeds and keeps the record, the
\* record's id is the id of the entity the remote holds under that
\* identity, whatever id was stored before, and no diagnostic is raised.
C25_ReadFollowsTheKey ==
    last.hook = "Read" =>
        /\ Len(last.calls) = 1
        /\ last.calls[1].key = KeyOf(kind, last.prior)
        /\ last.calls[1].id = EmptyString
        /\ (~HasError(last) /\ ~last.removed) =>
              /\ record # Absent
              /\ remote[KeyOf(kind, record)] # NoEntity
              /\ record["id"] = V(remote[KeyOf(kind, record)].id)
              /\ last.diags = <<>>

\* a Read met another entity under the record's identity and took its id
C25_Witness ==
    /\ last.hook = "Read"
    /\ ~HasError(last)
    /\ record # Absent
    /\ last.prior["id"] = V(IdOf(1))
    /\ record["id"] = V(IdOf(2))
    /\ KeyOf(kind, record) = KeyOf(kind, last.prior)


C27_ParsersAgree ==
    (parsed.graph # <<>> /\ parsed.subgraph # <<>> /\ parsed.branch # <<>>) =>
        /\ parsed.graph[1] = parsed.subgraph[1]
        /\ parsed.subgraph[1] = parsed.branch[1]


(***************************************************************************)
(* C28                                                                     *)
(***************************************************************************)
\* C28: for every 200-status, error-free reply the slug-keyed DeleteBranch
\* returns success or an error and never crashes; a branchDelete payload
\* that is null or an object without a string __typename gives the
\* "branch deletion failed" error.
C28_DeleteBranchNeverCrashes ==
    (kind = "branch" /\ last.hook = "Delete" /\ ErrorFree(LastReply)) =>
        LET res == DeleteBranchBySlug(LastReply)
            raw == Member(LastReply.data, "branchDelete")
        IN  /\ ~res.panic
            /\ ~last.panic
            /\ (raw.t \in {"null", "object"} /\ TypenameOf(raw) = "") =>
                  /\ res.err # NoErr
                  /\ Head(res.err) = "branch deletion failed: "


(***************************************************************************)
(* C29                                                                     *)
(***************************************************************************)
\* C29: a subgraph Update that succeeds writes the plan with the url
\* replaced by the url of the reply: id, branch_id, name and created_at are
\* written as planned, an unknown created_at included; a subgraph Update
\* that fails writes nothing.
C29_UpdateWritesUrlOnly ==
    (kind = "subgraph" /\ last.hook = "Update") =>
        IF HasError(last)
        THEN /\ last.state = last.prior
             /\ record = last.prior
        ELSE /\ DOMAIN last.state = DOMAIN last.plan
             /\ \A a \in DOMAIN last.plan \ {"url"} : last.state[a] = last.plan[a]
             /\ last.state["url"] = V(ReturnedUrl(LastReply))
             /\ record = last.state

\* an Update succeeded, the reply spelt the url otherwise than the plan,
\* and the created_at that the plan left unknown is unknown in the record
C29_Witness ==
    /\ kind = "subgraph"
    /\ last.hook = "Update"
    /\ ~HasError(last)
    /\ last.plan["created_at"] = Unknown
    /\ record["created_at"] = Unknown
    /\ record["url"] # last.plan["url"]
    /\ record["id"] = last.plan["id"]


(***************************************************************************)
(* C30                                                                     *)
(***************************************************************************)
\* the lookup reply holds an entity whose slug or name is not the one the
\* request named
ReplyIsRespelt(k, reply) ==
    /\ HasLookupEntity(reply, k)
    /\ LET e == reply.data.m[LookupField(k)].m
       IN  \/ "slug" \in DOMAIN e /\ e["slug"] = <<65>>
           \/ "name" \in DOMAIN e /\ e["name"] = <<65>>

\* C30: a Read or Update that leaves a record present leaves every identity
\* attribute of the record as it was, whatever slug or name the entity of
\* the reply carries; what it changes is among id, the computed attributes
\* and the subgraph url.
C30_IdentityIsNeverRewritten ==
    [][ ( /\ Idle
          /\ last'.hook \in {"Read", "Update"}
          /\ record # Absent
          /\ record' # Absent )
        => /\ \A a \in Range(IdentityAttrs(kind)) :
                /\ a \in DOMAIN record'
                /\ record'[a] = record[a]
           /\ \A a \in DOMAIN record :
                (a \in DOMAIN record' /\ record'[a] # record[a]) =>
                    a \in {"id"} \cup ComputedAttrs(kind) \cup OptionalComputedAttrs(kind)
                         \cup MutableAttrs(kind)
      ]_vars

\* a Read was answered with the entity under another spelling of its slug
\* or name, succeeded, and the record kept its identity
C30_Witness ==
    /\ last.hook = "Read"
    /\ ~HasError(last)
    /\ ReplyIsRespelt(kind, LastReply)
    /\ record # Absent
    /\ KeyOf(kind, record) = KeyOf(kind, last.prior)
    /\ \A i \in 1..Len(KeyOf(kind, record)) : KeyOf(kind, record)[i] # <<65>>

====
